---- MODULE Spec2Model ----
(***************************************************************************)
(* Frame acquisition sessions of python_scripts/camera_feed.py:            *)
(* DahengCameraThread (command queue, stop event, stall recovery) and      *)
(* OpenCVCameraThread (stop/start reconfigure).  One session object, its   *)
(* loop threads (every thread ever spawned by start() keeps its own        *)
(* position), the caller-side API and the device behind the handle.        *)
(*                                                                         *)
(* Conventions: a Python None/0 of a numeric field (fps, width, height)    *)
(* is 0 (both are falsy in `x or d` and `if x:`); a handle reference is a  *)
(* handle id >= 1, or 0 for None; an optional value is <<>> or <<v>>.      *)
(* Caller-side methods are atomic steps; the loop thread advances one      *)
(* statement group at a time so that callers interleave with it.           *)
(*                                                                         *)
(* The value conversions of camera_feed.py and camera_web.py (exposure     *)
(* units, JPEG quality, ROI crop) are operators, applied to drawn inputs   *)
(* by the calls of SpecPure.                                               *)
(*                                                                         *)
(* SpecWeb is one session of camera_web.py, CameraThread or its            *)
(* DahengCameraThread: start at creation, stop(), reconfigure() (stop then *)
(* start), the loop with its frame counter, and read_and_encode().  A      *)
(* handle id is never given out twice there, because the Daheng loop keeps *)
(* the data stream of the handle it started with.                          *)
(*                                                                         *)
(* SpecStream is the frame slot with its lock, the loop threads that       *)
(* publish into it and the MJPEG generators that poll it                   *)
(* (mjpeg_frame_generator of camera_feed.py, stream.gen of camera_web.py). *)
(* A frame is the number of its publish; its bytes are Payload(frame).     *)
(*                                                                         *)
(* SpecConfig is the property traffic between one Daheng session and its   *)
(* device: the pushes of start(), the commands applied by                  *)
(* _apply_pending_commands (camera_feed.py) and the direct setters of      *)
(* camera_web.py.  The device has a set of attributes (hasattr) and a set  *)
(* of attributes whose set() raises; every set() call is logged.           *)
(*                                                                         *)
(* SpecMetrics is the _metrics dictionary of a buffered camera_web         *)
(* session: the loop thread adds to frames_total, every stream generator   *)
(* adds to served_frames_total, each by a read and a later write.          *)
(***************************************************************************)
EXTENDS Integers, Sequences, FiniteSets, TLC

\* ---------------------------------------------------------------- bounds
MaxThreads == 2      \* threads start() may spawn over the session's life
MaxHandles == 2      \* device handles that can be open at the same time
MaxFrames == 2       \* distinct frame contents; the device delivers them in turn
MaxCmds == 2         \* commands enqueued over the session's life
MaxFail == 1         \* cap of frame_fail_count
MaxOvershoot == 1    \* empties counted beyond the recovery threshold
MaxExposureValue == 101  \* largest exposure submitted, besides 20000
MaxQualityInput == 101   \* largest jpeg_quality configured, besides 500
MaxDim == 3          \* largest frame width and height, in pixels
MaxCount == 4        \* cap of camera_web's _frame_counter
MaxConsumers == 2    \* stream generators polling one session
MaxPublish == 3      \* frames encoded over the life of the stream
MaxServed == 3       \* parts the generators emit over the life of the session
MaxIters == 2        \* pipeline iterations the loop thread completes

\* ------------------------------------------------------ program constants
MinEmptyThreshold == 10     \* max(10, ...) of the stall check
DahengFallbackFps == 15     \* (self.fps or 15)
OpenCVFallbackFps == 30     \* (self.fps or 30)
MsLimit == 100              \* v < 100 is taken as milliseconds
UsPerMs == 1000
SubMsLimit == 1             \* camera_web: value < 1
WebMsLimit == 100           \* camera_web: value < 100
WebUsPerMs == 1000          \* camera_web: value * 1000.0
QualityDefault == 80        \* camera_feed: jpeg_quality when absent or unparsable
MinQuality == 10            \* camera_feed: max(10, ...)
MaxQuality == 100           \* camera_feed: min(100, ...)
WebQualityDefault == 80     \* camera_web: jpeg_quality when absent, unparsable or 0

Threads == 1..MaxThreads
Handles == 1..MaxHandles
NoHandle == 0
NoFrame == 0
NoThread == 0
\* a cv2.VideoCapture object that did not open: truthy, never in `open`
Unopened == 0 - 1
None == <<>>
Some(v) == <<v>>

ConfigFps == {5}
ExposureInputs == {50}
GainInputs == {3}
\* reconfigure(width, height, fps) arguments; 0 is an argument left out
ReconfInputs == {<<800, 600, 12>>, <<0, 0, 0 - 1>>}

NoCmd == [kind |-> "none", a |-> 0, b |-> 0, c |-> 0, seq |-> 0]
Cmd(k, a, b, c, s) == [kind |-> k, a |-> a, b |-> b, c |-> c, seq |-> s]

VARIABLES
    backend,            \* "daheng" | "opencv": the class create_camera_from_config built
    running,            \* self.running
    cam,                \* self.cam / self.cap: handle id or NoHandle
    thread,             \* self.thread: thread id or NoThread
    latest,             \* self._latest
    cmd_q,              \* self._cmd_q
    stop_evt,           \* self._stop_evt
    consecutive_empty,  \* self._consecutive_empty
    frame_fail_count,   \* self.frame_fail_count
    fps, width, height, \* self.fps, self.width, self.height
    exposure, gain,     \* self.exposure, self.gain
    pc,                 \* position of every loop thread
    cur,                \* per thread: the command taken from the queue, not yet applied
    delay_fps,          \* per thread: fps read when _loop computed its delay (opencv)
    open,               \* device: handles that are open
    streaming,          \* device: handles that are streaming
    stopped,            \* history: stop() has returned and start() was not called since
    last_pub,           \* history: the frame of the most recently completed publish
    n_enq,              \* history: commands enqueued so far
    last_recovery,      \* history: <<>>, or <<how, n>> once a recovery attempt has
                        \* ended: how is "soft", "reopen" or "failed", n the length of
                        \* the run of empty acquisitions counted since
    call,               \* the conversion applied last: function, input, result
    w_class,            \* camera_web: "cv" (CameraThread) | "daheng" (DahengCameraThread)
    no_buffer_mode,     \* self.no_buffer_mode
    frame_skip,         \* self.frame_skip
    w_running,          \* self.running
    dev,                \* self.cap / self.dev: handle id or NoHandle
    w_thread,           \* self.thread
    latest_jpeg,        \* self.latest_jpeg: the counter value of the encoded iteration
    frame_counter,      \* self._frame_counter
    last_timestamp,     \* self._metrics['last_timestamp']: the iteration that set it
    w_pc,               \* position of every loop thread
    ds,                 \* per thread: the handle it acquires from
    counted,            \* per thread: the counter value its iteration produced
    w_open,             \* device: handles that are open
    w_streaming,        \* device: handles that are streaming
    w_opened,           \* device: handles given out so far
    reader,             \* the handle a caller inside read_and_encode() reads, or NoHandle
    w_raised,           \* the last call of the session API raised to its caller
    lock,               \* self._lock / self.frame_lock: <<>> or its holder
    s_latest,           \* the slot the lock protects
    n_made,             \* frames encoded so far
    p_pc,               \* position of every publishing loop thread
    p_frame,            \* per thread: the frame it encoded
    g_src,              \* "feed" (mjpeg_frame_generator) | "web" (stream.gen) |
                        \* "web_direct" (stream.gen of a no_buffer_mode session)
    g_pc,               \* position of every generator
    g_frame,            \* per generator: frame = cam.get_frame()
    g_last,             \* per generator: the frame of the part it emitted last
    g_part,             \* per generator: the part it emitted last
    k_class,            \* "feed" | "web": the module of the DahengCameraThread
    safe_mode,          \* self.safe_mode
    attrs,              \* device: the attributes the handle has
    faulty,             \* device: the attributes whose set() raises
    k_running,          \* self.running
    k_dev,              \* self.cam / self.dev is a handle
    k_fmt,              \* <<self.width, self.height, self.fps>>
    k_q,                \* self._cmd_q
    k_n,                \* history: calls of the setters and of reconfigure()
    k_pc,               \* "new", "failed", "idle", or the position of the loop thread
    k_cur,              \* the command taken from the queue, not yet applied
    k_exposure, k_gain, \* self.exposure, self.gain
    done,               \* history: every start() and every command processed, with
                        \* the set() calls it made
    m_frames,           \* self._metrics['frames_total']
    m_served,           \* self._metrics['served_frames_total']
    m_lpc,              \* position of the loop thread in its metrics update
    m_lval,             \* loop thread: the frames_total it read
    m_pc,               \* position of every generator
    m_val,              \* per generator: the served_frames_total it read
    m_iters,            \* history: pipeline iterations completed
    m_emitted,          \* history: parts emitted over all generators
    mv_in,              \* run_stepper: the arguments and settings of the call
    mv_pc,              \* position of the call in move_mm / move_steps
    mv_n,               \* steps, as move_steps received it
    mv_i,               \* loop index of the step loop
    mv_log,             \* history: the calls made on the stepper object
    mv_ret,             \* value returned by move_mm
    mv_warned,          \* the travel advisory was printed
    rd_in,              \* read_and_encode: the session it is called on
    rd_pc,              \* position of the call
    rd_i,               \* index of the flush loop
    rd_ok, rd_frame,    \* locals ok and frame: the number of the read it came from
    rd_log,             \* history: the outcome of every read, in order
    rd_enc,             \* history: the outcome of imencode, once reached
    rd_ret,             \* the value returned
    fc_in,              \* create_camera_from_config: the configuration, and what
                        \* each device would do when started
    fc_pc,              \* position of the call
    fc_alt,             \* loop variable alt of the scan
    fc_tried,           \* history: the sessions constructed, in order
    fc_cam,             \* cam: the session the call holds
    fc_threads,         \* the sessions that have a loop thread
    ld_in,              \* import of camera_feed: which optional modules exist
    ld_i,               \* the module-level statement to execute next
    ld_j,               \* inside a class statement: the body statement to execute
    ld_globals,         \* names bound in the module
    ld_none,            \* the names among them bound to None
    ld_class,           \* names bound in the body of the class being defined
    ld_err              \* the exception that ended the import

feed == <<backend, running, cam, thread, latest, cmd_q, stop_evt, consecutive_empty,
          frame_fail_count, fps, width, height, exposure, gain, pc, cur, delay_fps,
          open, streaming, stopped, last_pub, n_enq, last_recovery>>
w_config == <<w_class, no_buffer_mode, frame_skip>>
w_session == <<w_running, dev, w_thread>>
w_frames == <<latest_jpeg, frame_counter, last_timestamp>>
w_locals == <<w_pc, ds, counted>>
w_device == <<w_open, w_streaming, w_opened>>
w_caller == <<reader, w_raised>>
web == <<w_config, w_session, w_frames, w_locals, w_device, w_caller>>
publishers == <<n_made, p_pc, p_frame>>
generators == <<g_src, g_pc, g_frame, g_last, g_part>>
stream == <<lock, s_latest, publishers, generators>>
k_device == <<attrs, faulty>>
k_session == <<k_class, safe_mode, k_running, k_dev, k_fmt>>
k_queue == <<k_q, k_n>>
k_loop == <<k_pc, k_cur>>
k_reported == <<k_exposure, k_gain>>
config == <<k_device, k_session, k_queue, k_loop, k_reported, done>>
m_dict == <<m_frames, m_served>>
m_loop == <<m_lpc, m_lval, m_iters>>
m_gens == <<m_pc, m_val, m_emitted>>
metrics == <<m_dict, m_loop, m_gens>>
motor == <<mv_in, mv_pc, mv_n, mv_i, mv_log, mv_ret, mv_warned>>
direct == <<rd_in, rd_pc, rd_i, rd_ok, rd_frame, rd_log, rd_enc, rd_ret>>
factory == <<fc_in, fc_pc, fc_alt, fc_tried, fc_cam, fc_threads>>
loader == <<ld_in, ld_i, ld_j, ld_globals, ld_none, ld_class, ld_err>>
rest == <<motor, direct, factory, loader>>
others == <<config, metrics, rest>>
\* the camera sessions, which the other modules never touch
cameras == <<feed, call, web, stream, config, metrics>>
outside_motor == <<cameras, direct, factory, loader>>
outside_direct == <<cameras, motor, factory, loader>>
outside_factory == <<cameras, motor, direct, loader>>
outside_loader == <<cameras, motor, direct, factory>>
\* what the camera_feed sessions never touch
outside == <<call, web, stream, others>>
\* what the property traffic never touches
outside_config == <<feed, call, web, stream, metrics, rest>>
\* what the metrics updates never touch
outside_metrics == <<feed, call, web, stream, config, rest>>
vars == <<feed, outside>>

session == <<running, cam, thread, stop_evt>>
device == <<open, streaming>>
counters == <<consecutive_empty, frame_fail_count>>
format == <<fps, width, height>>
slot == <<latest, last_pub>>
queue == <<cmd_q, n_enq>>
locals == <<pc, cur, delay_fps>>

\* ---------------------------------------------------------------- helpers
Max(a, b) == IF a >= b THEN a ELSE b
Min(a, b) == IF a <= b THEN a ELSE b

\* `x or d`
OrDefault(x, d) == IF x # 0 THEN x ELSE d

\* a threshold without its floor of 10
ThresholdNoFloor(f) == OrDefault(f, DahengFallbackFps)

\* max(10, int((self.fps or 15) * 1.0))
Threshold(f) == Max(MinEmptyThreshold, OrDefault(f, DahengFallbackFps))

\* time.sleep(1.0 / (fps or d)) raises ValueError for a negative length
SleepRaises(f, d) == OrDefault(f, d) < 0

\* v * 1000.0 if v < 100 else v
ExposureUs(v) == IF v < MsLimit THEN v * UsPerMs ELSE v

Live(t) == pc[t] \notin {"unborn", "exited", "crashed"}
LiveThreads == {t \in Threads : Live(t)}
\* past the while test, inside the body of an iteration
Iterating(t) == Live(t) /\ pc[t] # "top"
Unborn == {t \in Threads : pc[t] = "unborn"}
NewThread == CHOOSE t \in Unborn : \A u \in Unborn : t <= u
FreeHandles == Handles \ open
NewHandle == CHOOSE h \in FreeHandles : \A g \in FreeHandles : h <= g

\* the history of the last recovery attempt once the run of empties counted
\* since it has length n
RunAfter(n) == IF last_recovery = None THEN None ELSE <<last_recovery[1], n>>

\* a slot that keeps its first frame
PublishSlotKeepsFirst(old, f) == IF old # NoFrame THEN old ELSE f

\* self._latest = buf.tobytes(), under the lock
PublishSlot(old, f) == f

\* the frame the device delivers after the one published last
NextFrame == (last_pub % MaxFrames) + 1

\* get_frame(): the slot, read under the lock
get_frame == latest

\* threading.Thread(target=self._loop).start(); the opencv _loop computes its
\* delay from self.fps once, before its while
Spawn(t, f) ==
    /\ pc' = [pc EXCEPT ![t] = "top"]
    /\ delay_fps' = [delay_fps EXCEPT ![t] = IF backend = "opencv" THEN f ELSE 0]
    /\ UNCHANGED cur

\* the session object after __init__, its fps drawn from F
FeedInitFps(F) ==
    /\ backend \in {"daheng", "opencv"}
    /\ running = FALSE
    /\ cam = NoHandle
    /\ thread = NoThread
    /\ latest = NoFrame
    /\ cmd_q = <<>>
    /\ stop_evt = FALSE
    /\ consecutive_empty = 0
    /\ frame_fail_count = 0
    /\ fps \in F
    /\ width = 640
    /\ height = 480
    /\ exposure = None
    /\ gain = None
    /\ pc = [t \in Threads |-> "unborn"]
    /\ cur = [t \in Threads |-> NoCmd]
    /\ delay_fps = [t \in Threads |-> 0]
    /\ open = {}
    /\ streaming = {}
    /\ stopped = FALSE
    /\ last_pub = NoFrame
    /\ n_enq = 0
    /\ last_recovery = None

FeedInit == FeedInitFps(ConfigFps)

NoCall == [fn |-> "none", arg |-> <<>>, out |-> <<>>]

\* camera_web: the session object after __init__
WebInit(k, nb, fs) ==
    /\ w_class = k
    /\ no_buffer_mode = nb
    /\ frame_skip = fs
    /\ w_running = FALSE
    /\ dev = NoHandle
    /\ w_thread = NoThread
    /\ latest_jpeg = NoFrame
    /\ frame_counter = 0
    /\ last_timestamp = 0
    /\ w_pc = [t \in Threads |-> "unborn"]
    /\ ds = [t \in Threads |-> NoHandle]
    /\ counted = [t \in Threads |-> 0]
    /\ w_open = {}
    /\ w_streaming = {}
    /\ w_opened = 0
    /\ reader = NoHandle
    /\ w_raised = FALSE

Consumers == 1..MaxConsumers

\* a session whose first loop thread runs, and generators about to poll
StreamInit(src) ==
    /\ lock = None
    /\ s_latest = NoFrame
    /\ n_made = 0
    /\ p_pc = [t \in Threads |->
                 IF t = 1 /\ src # "web_direct" THEN "acquire" ELSE "unborn"]
    /\ p_frame = [t \in Threads |-> NoFrame]
    /\ g_src = src
    /\ g_pc = [c \in Consumers |-> "poll"]
    /\ g_frame = [c \in Consumers |-> NoFrame]
    /\ g_last = [c \in Consumers |-> NoFrame]
    /\ g_part = [c \in Consumers |-> ""]

AllAttrs ==
    {"ExposureAuto", "GainAuto", "Width", "Height", "AcquisitionFrameRateEnable",
     "AcquisitionFrameRate", "ExposureTime", "Gain"}

\* the session object after __init__, on a device with attributes has of
\* which those in bad reject every value
ConfigInit(k, sm, has, bad) ==
    /\ k_class = k
    /\ safe_mode = sm
    /\ attrs = has
    /\ faulty = bad
    /\ k_running = FALSE
    /\ k_dev = FALSE
    /\ k_fmt = <<640, 480, 5>>
    /\ k_q = <<>>
    /\ k_n = 0
    /\ k_pc = "new"
    /\ k_cur = NoCmd
    /\ k_exposure = None
    /\ k_gain = None
    /\ done = <<>>

ConfigIdle == ConfigInit("feed", FALSE, AllAttrs, {})

\* the dictionary built by __init__, the loop thread and the generators
\* about to work
MetricsInit ==
    /\ m_frames = 0
    /\ m_served = 0
    /\ m_lpc = "pipeline"
    /\ m_lval = 0
    /\ m_pc = [c \in Consumers |-> "poll"]
    /\ m_val = [c \in Consumers |-> 0]
    /\ m_iters = 0
    /\ m_emitted = 0

\* run_stepper: no call made
MotorIdle ==
    /\ mv_in = [fn |-> "none"]
    /\ mv_pc = "idle"
    /\ mv_n = 0
    /\ mv_i = 0
    /\ mv_log = <<>>
    /\ mv_ret = None
    /\ mv_warned = FALSE

\* camera_web read_and_encode: no call made
DirectIdle ==
    /\ rd_in = [class |-> "none"]
    /\ rd_pc = "idle"
    /\ rd_i = 0
    /\ rd_ok = FALSE
    /\ rd_frame = NoFrame
    /\ rd_log = <<>>
    /\ rd_enc = None
    /\ rd_ret = None

\* create_camera_from_config: no call made
FactoryIdle ==
    /\ fc_in = [backend |-> "none"]
    /\ fc_pc = "idle"
    /\ fc_alt = 0
    /\ fc_tried = <<>>
    /\ fc_cam = None
    /\ fc_threads = {}

\* import of camera_feed: not begun
LoaderIdle ==
    /\ ld_in = [cv2 |-> TRUE, gx |-> TRUE]
    /\ ld_i = 0
    /\ ld_j = 0
    /\ ld_globals = {}
    /\ ld_none = {}
    /\ ld_class = {}
    /\ ld_err = None

\* the calls modelled on their own, none made
RestIdle == MotorIdle /\ DirectIdle /\ FactoryIdle /\ LoaderIdle

Init ==
    /\ FeedInit
    /\ call = NoCall
    /\ WebInit("cv", FALSE, 0)
    /\ StreamInit("feed")
    /\ ConfigIdle
    /\ MetricsInit
    /\ RestIdle

\* ------------------------------------------------ DahengCameraThread, API
\* start() on a running session returns at once
DStartNoop ==
    /\ backend = "daheng"
    /\ running
    /\ UNCHANGED vars

\* how far a start() call gets: the enumeration finds no device, the open
\* raises, stream_on raises, or everything succeeds
StartOutcomes == {"nodev", "openfail", "streamfail", "ok"}
FailOutcomes == StartOutcomes \ {"ok"}

\* self.cam = dm.open_device_by_...() was reached and returned
StartOpens(o) == o \in {"streamfail", "ok"}

\* running set and the thread created before stream_on is tried
StartRunsBeforeStream(o) == o \in {"streamfail", "ok"}

\* self.running = True and the thread creation after it were reached
StartRuns(o) == o = "ok"

\* start() on a stopped session: the event is cleared first; every raise
\* leaves what was assigned before it (a handle opened before a failing
\* stream_on stays in self.cam)
DStart(o) ==
    /\ backend = "daheng"
    /\ ~running
    /\ StartOpens(o) => FreeHandles # {}
    /\ StartRuns(o) => Unborn # {}
    /\ stop_evt' = FALSE
    /\ stopped' = FALSE
    /\ cam' = IF StartOpens(o) THEN NewHandle ELSE cam
    /\ open' = IF StartOpens(o) THEN open \cup {NewHandle} ELSE open
    /\ streaming' = IF o = "ok" THEN streaming \cup {NewHandle} ELSE streaming
    /\ running' = StartRuns(o)
    /\ IF StartRuns(o)
       THEN thread' = NewThread /\ Spawn(NewThread, fps)
       ELSE UNCHANGED <<thread, locals>>
    /\ UNCHANGED <<outside, backend, counters, format, slot, queue, exposure, gain,
                   last_recovery>>

\* stop(): flag, event, stream_off and close_device on the caller's thread
\* (a raising stream_off is swallowed and the close still runs), references
\* cleared; the loop thread is not joined
DStop ==
    /\ backend = "daheng"
    /\ running' = FALSE
    /\ stop_evt' = TRUE
    /\ open' = open \ {cam}
    /\ streaming' = streaming \ {cam}
    /\ cam' = NoHandle
    /\ thread' = NoThread
    /\ stopped' = TRUE
    /\ UNCHANGED <<outside, backend, counters, format, slot, queue, locals, exposure, gain,
                   last_recovery>>

\* self._cmd_q.put(c)
Enqueue(k, a, b, c) ==
    /\ n_enq < MaxCmds
    /\ cmd_q' = Append(cmd_q, Cmd(k, a, b, c, n_enq + 1))
    /\ n_enq' = n_enq + 1

\* a reconfigure() that stops the session to apply the format, as the
\* stop/start sessions do
DReconfigureByRestart(w, h, f) ==
    /\ backend = "daheng"
    /\ width' = OrDefault(w, width)
    /\ height' = OrDefault(h, height)
    /\ fps' = OrDefault(f, fps)
    /\ running' = FALSE
    /\ stop_evt' = TRUE
    /\ open' = open \ {cam}
    /\ streaming' = streaming \ {cam}
    /\ cam' = NoHandle
    /\ thread' = NoThread
    /\ UNCHANGED <<outside, backend, counters, slot, queue, locals, exposure, gain,
                   stopped, last_recovery>>

\* reconfigure(): fields updated, one set_format command queued
DReconfigure(w, h, f) ==
    /\ backend = "daheng"
    /\ width' = OrDefault(w, width)
    /\ height' = OrDefault(h, height)
    /\ fps' = OrDefault(f, fps)
    /\ Enqueue("set_format", width', height', fps')
    /\ UNCHANGED <<outside, backend, session, device, counters, slot, locals, exposure, gain,
                   stopped, last_recovery>>

DSetExposure(v) ==
    /\ backend = "daheng"
    /\ Enqueue("set_exposure", v, 0, 0)
    /\ UNCHANGED <<outside, backend, session, device, counters, format, slot, locals,
                   exposure, gain, stopped, last_recovery>>

DSetGain(v) ==
    /\ backend = "daheng"
    /\ Enqueue("set_gain", v, 0, 0)
    /\ UNCHANGED <<outside, backend, session, device, counters, format, slot, locals,
                   exposure, gain, stopped, last_recovery>>

\* --------------------------------------------- DahengCameraThread, _loop
\* while self.running and not self._stop_evt.is_set()
LoopTop(t) ==
    /\ backend = "daheng"
    /\ pc[t] = "top"
    /\ pc' = [pc EXCEPT ![t] = IF running /\ ~stop_evt THEN "drain" ELSE "exited"]
    /\ UNCHANGED <<outside, backend, session, device, counters, format, slot, queue, cur,
                   delay_fps, exposure, gain, stopped, last_recovery>>

\* _apply_pending_commands: the queue is empty, the drain is over
DrainDone(t) ==
    /\ backend = "daheng"
    /\ pc[t] = "drain"
    /\ cmd_q = <<>>
    /\ pc' = [pc EXCEPT ![t] = "acquire"]
    /\ UNCHANGED <<outside, backend, session, device, counters, format, slot, queue, cur,
                   delay_fps, exposure, gain, stopped, last_recovery>>

\* _apply_pending_commands: cmd, val = self._cmd_q.get_nowait()
Dequeue(t) ==
    /\ backend = "daheng"
    /\ pc[t] = "drain"
    /\ cmd_q # <<>>
    /\ cur' = [cur EXCEPT ![t] = Head(cmd_q)]
    /\ cmd_q' = Tail(cmd_q)
    /\ pc' = [pc EXCEPT ![t] = "apply"]
    /\ UNCHANGED <<outside, backend, session, device, counters, format, slot, n_enq,
                   delay_fps, exposure, gain, stopped, last_recovery>>

\* self.exposure after a set_exposure command: the push may raise, and then
\* the assignment after it is not reached
ExposureAfter(c, raises) ==
    IF c.kind = "set_exposure" /\ ~(cam # NoHandle /\ raises)
    THEN Some(ExposureUs(c.a)) ELSE exposure

\* self.gain after a set_gain command: assigned only with a handle
GainAfter(c, raises) ==
    IF c.kind = "set_gain" /\ cam # NoHandle /\ ~raises THEN Some(c.a) ELSE gain

\* _apply_pending_commands: the command taken is applied; an exception is
\* printed and the drain goes on
Apply(t, raises) ==
    /\ backend = "daheng"
    /\ pc[t] = "apply"
    /\ exposure' = ExposureAfter(cur[t], raises)
    /\ gain' = GainAfter(cur[t], raises)
    /\ cur' = [cur EXCEPT ![t] = NoCmd]
    /\ pc' = [pc EXCEPT ![t] = "drain"]
    /\ UNCHANGED <<outside, backend, session, device, counters, format, slot, queue,
                   delay_fps, stopped, last_recovery>>

\* a capture that waits for the handle to come back instead of raising
AcquireWaitsForHandle(t) ==
    /\ backend = "daheng"
    /\ pc[t] = "acquire"
    /\ IF cam = NoHandle
       THEN UNCHANGED <<pc, frame_fail_count>>
       ELSE /\ pc' = [pc EXCEPT ![t] = "inacq"]
            /\ UNCHANGED frame_fail_count
    /\ UNCHANGED <<outside, backend, session, device, consecutive_empty, format, slot, queue,
                   cur, delay_fps, exposure, gain, stopped, last_recovery>>

\* _capture_once: ds = self.cam.data_stream[0]; with self.cam None the
\* AttributeError reaches _loop's except: count, sleep, continue
Acquire(t) ==
    /\ backend = "daheng"
    /\ pc[t] = "acquire"
    /\ IF cam = NoHandle
       THEN /\ frame_fail_count' = frame_fail_count + 1
            /\ pc' = [pc EXCEPT ![t] = "top"]
       ELSE /\ pc' = [pc EXCEPT ![t] = "inacq"]
            /\ UNCHANGED frame_fail_count
    /\ UNCHANGED <<outside, backend, session, device, consecutive_empty, format, slot, queue,
                   cur, delay_fps, exposure, gain, stopped, last_recovery>>

\* _capture_once: get_image returned a frame, it was converted and encoded,
\* and is published under the lock
CaptureFrame(t) ==
    /\ backend = "daheng"
    /\ pc[t] = "inacq"
    /\ latest' = PublishSlot(latest, NextFrame)
    /\ last_pub' = NextFrame
    /\ frame_fail_count' = 0
    /\ consecutive_empty' = 0
    /\ last_recovery' = RunAfter(0)
    /\ pc' = [pc EXCEPT ![t] = "pace"]
    /\ UNCHANGED <<outside, backend, session, device, format, queue, cur, delay_fps,
                   exposure, gain, stopped>>

\* _capture_once: get_image returned None within the timeout
CaptureEmpty(t) ==
    /\ backend = "daheng"
    /\ pc[t] = "inacq"
    /\ consecutive_empty < Threshold(fps) + MaxOvershoot
    /\ consecutive_empty' = consecutive_empty + 1
    /\ last_recovery' = RunAfter(last_recovery[2] + 1)
    /\ pc' = [pc EXCEPT ![t] = "pace"]
    /\ UNCHANGED <<outside, backend, session, device, frame_fail_count, format, slot, queue,
                   cur, delay_fps, exposure, gain, stopped>>

\* _capture_once: the frame array is None or imencode returned False
CaptureNoPublish(t) ==
    /\ backend = "daheng"
    /\ pc[t] = "inacq"
    /\ pc' = [pc EXCEPT ![t] = "pace"]
    /\ UNCHANGED <<outside, backend, session, device, counters, format, slot, queue,
                   cur, delay_fps, exposure, gain, stopped, last_recovery>>

\* _capture_once raised (get_image, flip or imencode): _loop's except
CaptureRaises(t) ==
    /\ backend = "daheng"
    /\ pc[t] = "inacq"
    /\ frame_fail_count < MaxFail
    /\ frame_fail_count' = frame_fail_count + 1
    /\ pc' = [pc EXCEPT ![t] = "top"]
    /\ UNCHANGED <<outside, backend, session, device, consecutive_empty, format, slot, queue,
                   cur, delay_fps, exposure, gain, stopped, last_recovery>>

\* where _loop goes after time.sleep(delay): the sleep is outside the try,
\* then the stall check and its `if self.cam:`
AfterPace(f, empties, h) ==
    IF SleepRaises(f, DahengFallbackFps) THEN "crashed"
    ELSE IF empties >= Threshold(f) /\ h # NoHandle THEN "soft_off"
    ELSE "top"

Pace(t) ==
    /\ backend = "daheng"
    /\ pc[t] = "pace"
    /\ pc' = [pc EXCEPT ![t] = AfterPace(fps, consecutive_empty, cam)]
    /\ UNCHANGED <<outside, backend, session, device, counters, format, slot, queue,
                   cur, delay_fps, exposure, gain, stopped, last_recovery>>

\* recovery: self.cam.stream_off(), any exception swallowed
SoftOff(t, raises) ==
    /\ backend = "daheng"
    /\ pc[t] = "soft_off"
    /\ streaming' = IF cam = NoHandle \/ raises THEN streaming ELSE streaming \ {cam}
    /\ pc' = [pc EXCEPT ![t] = "soft_on"]
    /\ UNCHANGED <<outside, backend, session, open, counters, format, slot, queue,
                   cur, delay_fps, exposure, gain, stopped, last_recovery>>

\* a soft restart that leaves the counter as it found it
SoftOnKeepsCount(t, raises) ==
    /\ backend = "daheng"
    /\ pc[t] = "soft_on"
    /\ LET raised == cam = NoHandle \/ raises IN
        /\ streaming' = IF raised THEN streaming ELSE streaming \cup {cam}
        /\ last_recovery' = IF raised THEN last_recovery ELSE <<"soft", 0>>
        /\ pc' = [pc EXCEPT ![t] = IF raised THEN "reopen" ELSE "top"]
    /\ UNCHANGED <<outside, backend, session, open, counters, format, slot, queue,
                   cur, delay_fps, exposure, gain, stopped>>

\* where the recovery goes after self.cam.stream_on()
AfterSoftOn(raised) == IF raised THEN "reopen" ELSE "top"

\* recovery: self.cam.stream_on(); with self.cam None it raises AttributeError
SoftOn(t, raises) ==
    /\ backend = "daheng"
    /\ pc[t] = "soft_on"
    /\ LET raised == cam = NoHandle \/ raises IN
        /\ streaming' = IF raised THEN streaming ELSE streaming \cup {cam}
        /\ consecutive_empty' = IF raised THEN consecutive_empty ELSE 0
        /\ last_recovery' = IF raised THEN last_recovery ELSE <<"soft", 0>>
        /\ pc' = [pc EXCEPT ![t] = AfterSoftOn(raised)]
    /\ UNCHANGED <<outside, backend, session, open, frame_fail_count, format, slot, queue,
                   cur, delay_fps, exposure, gain, stopped>>

\* escalation: the enumeration or the open raised; printed, loop goes on
ReopenFails(t) ==
    /\ backend = "daheng"
    /\ pc[t] = "reopen"
    /\ pc' = [pc EXCEPT ![t] = "top"]
    /\ last_recovery' = <<"failed", 0>>
    /\ UNCHANGED <<outside, backend, session, device, counters, format, slot, queue,
                   cur, delay_fps, exposure, gain, stopped>>

\* escalation: self.cam = dm.open_device_by_...; self.cam.stream_on(); the
\* handle held before is not closed
ReopenOpens(t, streamRaises) ==
    /\ backend = "daheng"
    /\ pc[t] = "reopen"
    /\ FreeHandles # {}
    /\ cam' = NewHandle
    /\ open' = open \cup {NewHandle}
    /\ streaming' = IF streamRaises THEN streaming ELSE streaming \cup {NewHandle}
    /\ consecutive_empty' = IF streamRaises THEN consecutive_empty ELSE 0
    /\ last_recovery' = IF streamRaises THEN <<"failed", 0>> ELSE <<"reopen", 0>>
    /\ pc' = [pc EXCEPT ![t] = "top"]
    /\ UNCHANGED <<outside, backend, running, thread, stop_evt, frame_fail_count, format, slot,
                   queue, cur, delay_fps, exposure, gain, stopped>>

\* ------------------------------------------------- OpenCVCameraThread, API
OStartNoop ==
    /\ backend = "opencv"
    /\ running
    /\ UNCHANGED vars

\* start(): self.cap = cv2.VideoCapture(device); raise unless it opened
OStart(o) ==
    /\ backend = "opencv"
    /\ ~running
    /\ o \in {"openfail", "ok"}
    /\ StartOpens(o) => FreeHandles # {}
    /\ StartRuns(o) => Unborn # {}
    /\ stopped' = FALSE
    /\ cam' = IF StartOpens(o) THEN NewHandle ELSE Unopened
    /\ open' = IF StartOpens(o) THEN open \cup {NewHandle} ELSE open
    /\ running' = StartRuns(o)
    /\ IF StartRuns(o)
       THEN thread' = NewThread /\ Spawn(NewThread, fps)
       ELSE UNCHANGED <<thread, locals>>
    /\ UNCHANGED <<outside, backend, stop_evt, streaming, counters, format, slot, queue,
                   exposure, gain, last_recovery>>

\* stop(): flag, release on the caller's thread, references cleared
OStop ==
    /\ backend = "opencv"
    /\ running' = FALSE
    /\ open' = open \ {cam}
    /\ cam' = NoHandle
    /\ thread' = NoThread
    /\ stopped' = TRUE
    /\ UNCHANGED <<outside, backend, stop_evt, streaming, counters, format, slot, queue,
                   locals, exposure, gain, last_recovery>>

\* reconfigure() on a session that is not running: the fields only
OReconfigureIdle(w, h, f) ==
    /\ backend = "opencv"
    /\ ~running
    /\ width' = OrDefault(w, width)
    /\ height' = OrDefault(h, height)
    /\ fps' = OrDefault(f, fps)
    /\ UNCHANGED <<outside, backend, session, device, counters, slot, queue, locals,
                   exposure, gain, stopped, last_recovery>>

\* reconfigure() on a running session: stop(), the fields, start()
OReconfigure(w, h, f, o) ==
    /\ backend = "opencv"
    /\ running
    /\ o \in {"openfail", "ok"}
    /\ StartRuns(o) => Unborn # {}
    /\ width' = OrDefault(w, width)
    /\ height' = OrDefault(h, height)
    /\ fps' = OrDefault(f, fps)
    /\ stopped' = FALSE
    /\ LET released == open \ {cam}
           h2 == CHOOSE x \in Handles \ released : \A y \in Handles \ released : x <= y
       IN  /\ cam' = IF StartOpens(o) THEN h2 ELSE Unopened
           /\ open' = IF StartOpens(o) THEN released \cup {h2} ELSE released
    /\ running' = StartRuns(o)
    /\ IF StartRuns(o)
       THEN thread' = NewThread /\ Spawn(NewThread, fps')
       ELSE thread' = NoThread /\ UNCHANGED locals
    /\ UNCHANGED <<outside, backend, stop_evt, streaming, counters, slot, queue,
                   exposure, gain, last_recovery>>

\* set_exposure(): the field, and cap.set on the caller's thread
OSetExposure(v) ==
    /\ backend = "opencv"
    /\ exposure' = Some(v)
    /\ UNCHANGED <<outside, backend, session, device, counters, format, slot, queue, locals,
                   gain, stopped, last_recovery>>

OSetGain(v) ==
    /\ backend = "opencv"
    /\ gain' = Some(v)
    /\ UNCHANGED <<outside, backend, session, device, counters, format, slot, queue, locals,
                   exposure, stopped, last_recovery>>

\* ------------------------------------------------ OpenCVCameraThread, _loop
\* while self.running
OLoopTop(t) ==
    /\ backend = "opencv"
    /\ pc[t] = "top"
    /\ pc' = [pc EXCEPT ![t] = IF running THEN "acquire" ELSE "exited"]
    /\ UNCHANGED <<outside, backend, session, device, counters, format, slot, queue, cur,
                   delay_fps, exposure, gain, stopped, last_recovery>>

\* ok, frame = self.cap.read() if self.cap else (False, None); without an
\* open capture the read fails: count, sleep, continue
OAcquire(t) ==
    /\ backend = "opencv"
    /\ pc[t] = "acquire"
    /\ IF cam \notin open
       THEN /\ frame_fail_count' = frame_fail_count + 1
            /\ pc' = [pc EXCEPT ![t] = "top"]
       ELSE /\ pc' = [pc EXCEPT ![t] = "inacq"]
            /\ UNCHANGED frame_fail_count
    /\ UNCHANGED <<outside, backend, session, device, consecutive_empty, format, slot, queue,
                   cur, delay_fps, exposure, gain, stopped, last_recovery>>

\* the read returned a frame, it was flipped, encoded and published
OCaptureFrame(t) ==
    /\ backend = "opencv"
    /\ pc[t] = "inacq"
    /\ latest' = PublishSlot(latest, NextFrame)
    /\ last_pub' = NextFrame
    /\ frame_fail_count' = 0
    /\ pc' = [pc EXCEPT ![t] = "pace"]
    /\ UNCHANGED <<outside, backend, session, device, consecutive_empty, format, queue, cur,
                   delay_fps, exposure, gain, stopped, last_recovery>>

\* the read returned not ok
OCaptureFails(t) ==
    /\ backend = "opencv"
    /\ pc[t] = "inacq"
    /\ frame_fail_count < MaxFail
    /\ frame_fail_count' = frame_fail_count + 1
    /\ pc' = [pc EXCEPT ![t] = "top"]
    /\ UNCHANGED <<outside, backend, session, device, consecutive_empty, format, slot, queue,
                   cur, delay_fps, exposure, gain, stopped, last_recovery>>

\* imencode returned False: nothing published
OCaptureNoPublish(t) ==
    /\ backend = "opencv"
    /\ pc[t] = "inacq"
    /\ pc' = [pc EXCEPT ![t] = "pace"]
    /\ UNCHANGED <<outside, backend, session, device, counters, format, slot, queue, cur,
                   delay_fps, exposure, gain, stopped, last_recovery>>

\* time.sleep(delay), delay computed once when _loop began; no try around it
OPace(t) ==
    /\ backend = "opencv"
    /\ pc[t] = "pace"
    /\ pc' = [pc EXCEPT ![t] =
                 IF SleepRaises(delay_fps[t], OpenCVFallbackFps) THEN "crashed" ELSE "top"]
    /\ UNCHANGED <<outside, backend, session, device, counters, format, slot, queue, cur,
                   delay_fps, exposure, gain, stopped, last_recovery>>

\* ------------------------------------------------------------ specification
\* the caller side of a Daheng session
DahengApi ==
    \/ DStartNoop
    \/ DStop
    \/ \E r \in ReconfInputs : DReconfigure(r[1], r[2], r[3])
    \/ \E v \in ExposureInputs : DSetExposure(v)
    \/ \E v \in GainInputs : DSetGain(v)

\* a Daheng loop thread whose device answers every get_image in time
DahengLoop ==
    \/ \E t \in Threads : LoopTop(t)
    \/ \E t \in Threads : DrainDone(t)
    \/ \E t \in Threads : Dequeue(t)
    \/ \E t \in Threads, raises \in BOOLEAN : Apply(t, raises)
    \/ \E t \in Threads : Acquire(t)
    \/ \E t \in Threads : CaptureFrame(t)
    \/ \E t \in Threads : CaptureNoPublish(t)
    \/ \E t \in Threads : CaptureRaises(t)
    \/ \E t \in Threads : Pace(t)

\* the device stalls: empty acquisitions and the two recovery tiers
DahengStall ==
    \/ \E t \in Threads : CaptureEmpty(t)
    \/ \E t \in Threads, raises \in BOOLEAN : SoftOff(t, raises)
    \/ \E t \in Threads, raises \in BOOLEAN : SoftOn(t, raises)
    \/ \E t \in Threads : ReopenFails(t)
    \/ \E t \in Threads, raises \in BOOLEAN : ReopenOpens(t, raises)

OpenCV ==
    \/ OStartNoop
    \/ \E o \in StartOutcomes : OStart(o)
    \/ OStop
    \/ \E r \in ReconfInputs : OReconfigureIdle(r[1], r[2], r[3])
    \/ \E r \in ReconfInputs, o \in StartOutcomes : OReconfigure(r[1], r[2], r[3], o)
    \/ \E v \in ExposureInputs : OSetExposure(v)
    \/ \E v \in GainInputs : OSetGain(v)
    \/ \E t \in Threads : OLoopTop(t)
    \/ \E t \in Threads : OAcquire(t)
    \/ \E t \in Threads : OCaptureFrame(t)
    \/ \E t \in Threads : OCaptureFails(t)
    \/ \E t \in Threads : OCaptureNoPublish(t)
    \/ \E t \in Threads : OPace(t)

\* Sessions of either class that are started, stopped and started again
\* (up to MaxThreads threads), on a device that does not stall.
Next ==
    \/ \E o \in StartOutcomes : DStart(o)
    \/ DahengApi
    \/ DahengLoop
    \/ OpenCV

Spec == Init /\ [][Next]_vars

\* A Daheng session whose device may stall: start() calls until one
\* succeeds, the loop with its recovery, stop() at any moment.
FirstStart(o) == Unborn = Threads /\ DStart(o)

InitStall == Init /\ backend = "daheng"

NextStall ==
    \/ \E o \in StartOutcomes : FirstStart(o)
    \/ DahengApi
    \/ DahengLoop
    \/ DahengStall

SpecStall == InitStall /\ [][NextStall]_vars

\* The same session with its fps unset (None) or set: the stall check
\* falls back to 15 frames per second when it is unset.
RecoveryFps == {0, 5}

InitRecovery ==
    /\ FeedInitFps(RecoveryFps)
    /\ backend = "daheng"
    /\ call = NoCall
    /\ WebInit("cv", FALSE, 0)
    /\ StreamInit("feed")
    /\ ConfigIdle
    /\ MetricsInit
    /\ RestIdle

SpecRecovery == InitRecovery /\ [][NextStall]_vars

\* ------------------------------------------------------ camera_web, API
FrameSkips == {0, 2}
WebUnborn == {t \in Threads : w_pc[t] = "unborn"}
WebNewThread == CHOOSE t \in WebUnborn : \A u \in WebUnborn : t <= u
WebLive(t) == w_pc[t] \notin {"unborn", "exited"}
WebNewHandle == w_opened + 1

\* a start() that creates its thread whatever the mode
SpawnsAlways(nb) == TRUE

\* start(): if not self.no_buffer_mode: the thread is created
Spawns(nb) == ~nb

\* how far start() gets; CameraThread has no stream to start
WebStartOutcomes == {"openfail", "streamfail", "ok"}
WebOpens(o) == o \in {"streamfail", "ok"}

\* the assignments of a start() call reached with outcome o; the Daheng
\* loop takes ds = self.dev.data_stream[0] when it begins
WebStartBody(o) ==
    /\ w_class = "cv" => o # "streamfail"
    /\ WebOpens(o) => w_opened < MaxHandles
    /\ (o = "ok" /\ Spawns(no_buffer_mode)) => WebUnborn # {}
    /\ dev' = IF WebOpens(o) THEN WebNewHandle
              ELSE IF w_class = "cv" THEN Unopened ELSE NoHandle
    /\ w_opened' = IF WebOpens(o) THEN WebNewHandle ELSE w_opened
    /\ w_open' = IF WebOpens(o) THEN (w_open \ {dev}) \cup {WebNewHandle} ELSE w_open \ {dev}
    /\ w_streaming' = IF o = "ok" /\ w_class = "daheng"
                      THEN (w_streaming \ {dev}) \cup {WebNewHandle} ELSE w_streaming \ {dev}
    /\ w_running' = (o = "ok")
    /\ w_raised' = (o # "ok")
    /\ IF o = "ok" /\ Spawns(no_buffer_mode)
       THEN /\ w_thread' = WebNewThread
            /\ w_pc' = [w_pc EXCEPT ![WebNewThread] = "top"]
            /\ ds' = [ds EXCEPT ![WebNewThread] =
                         IF w_class = "daheng" THEN WebNewHandle ELSE NoHandle]
       ELSE /\ w_thread' = NoThread
            /\ UNCHANGED <<w_pc, ds>>

\* create_app: cam.start() on the new session
WebStart(o) ==
    /\ ~w_running
    /\ dev = NoHandle
    /\ w_opened = 0
    /\ WebStartBody(o)
    /\ UNCHANGED <<feed, call, stream, others, w_config, w_frames, counted, reader>>

\* what the device does in a stop(): nothing fails, stream_off raises, or
\* close_device / release raises; CameraThread has no stream to stop
StopOutcomes == {"ok", "off_raises", "close_raises"}

\* stop(): the close is reached and succeeds. The Daheng stop() runs
\* stream_off and close_device in one try, so a raising stream_off skips
\* the close; CameraThread calls release() with no try
WebStopCloses(o) == o = "ok"

\* stop(): the exception leaves stop(): try/finally has no except
WebStopRaises(o) == o # "ok"

\* stop() with a handle: what it assigns before the exception, if any,
\* leaves it. CameraThread: self.cap = None follows release(); Daheng:
\* self.dev = None is in the finally, self.thread = None after it
WebStop(o) ==
    /\ dev # NoHandle
    /\ dev # Unopened
    /\ w_class = "cv" => o # "off_raises"
    /\ w_running' = FALSE
    /\ w_open' = IF WebStopCloses(o) THEN w_open \ {dev} ELSE w_open
    /\ w_streaming' = IF o = "off_raises" THEN w_streaming ELSE w_streaming \ {dev}
    /\ dev' = IF WebStopRaises(o) /\ w_class = "cv" THEN dev ELSE NoHandle
    /\ w_thread' = IF WebStopRaises(o) THEN w_thread ELSE NoThread
    /\ w_raised' = WebStopRaises(o)
    /\ UNCHANGED <<feed, call, stream, others, w_config, w_frames, w_locals, w_opened, reader>>

\* stop() without an open handle: the flag and the references only
\* (release() of a capture that never opened does nothing)
WebStopIdle ==
    /\ dev \in {NoHandle, Unopened}
    /\ w_running' = FALSE
    /\ dev' = NoHandle
    /\ w_thread' = NoThread
    /\ w_raised' = FALSE
    /\ UNCHANGED <<feed, call, stream, others, w_config, w_frames, w_locals, w_device, reader>>

\* reconfigure() on a running session: stop() (here without a failure; a
\* failing stop() leaves reconfigure() as WebStop does), fields, start()
WebReconfigure(o) ==
    /\ w_running
    /\ dev # NoHandle
    /\ WebStartBody(o)
    /\ UNCHANGED <<feed, call, stream, others, w_config, w_frames, counted, reader>>

\* read_and_encode(): if not self.no_buffer_mode or no handle: return None
ReadAndEncodeNone ==
    /\ ~no_buffer_mode \/ dev = NoHandle
    /\ reader = NoHandle
    /\ w_raised' = FALSE
    /\ UNCHANGED <<feed, call, stream, others, w_config, w_session, w_frames, w_locals,
                   w_device,
                   reader>>

\* read_and_encode(): the caller enters cap.read() / ds.get_image()
ReadAndEncodeBegin ==
    /\ no_buffer_mode
    /\ dev # NoHandle
    /\ reader = NoHandle
    /\ reader' = dev
    /\ UNCHANGED <<feed, call, stream, others, w_config, w_session, w_frames, w_locals,
                   w_device,
                   w_raised>>

\* read_and_encode(): the read returned; the JPEG or None goes to the caller
ReadAndEncodeEnd ==
    /\ reader # NoHandle
    /\ reader' = NoHandle
    /\ w_raised' = FALSE
    /\ UNCHANGED <<feed, call, stream, others, w_config, w_session, w_frames, w_locals,
                   w_device>>

\* ----------------------------------------------------- camera_web, _loop
\* while self.running (Daheng: and ds is not None); CameraThread reads
\* self.cap anew in every iteration
WebLoopTop(t) ==
    /\ w_pc[t] = "top"
    /\ LET goes == w_running /\ (w_class = "daheng" => ds[t] # NoHandle) IN
        /\ w_pc' = [w_pc EXCEPT ![t] = IF goes THEN "read" ELSE "exited"]
        /\ ds' = [ds EXCEPT ![t] = IF goes /\ w_class = "cv" THEN dev ELSE ds[t]]
    /\ UNCHANGED <<feed, call, stream, others, w_config, w_session, w_frames, counted, w_device,
                   w_caller>>

\* the read failed (not ok, no image, exception): sleep, continue
WebReadFails(t) ==
    /\ w_pc[t] = "read"
    /\ w_pc' = [w_pc EXCEPT ![t] = "top"]
    /\ UNCHANGED <<feed, call, stream, others, w_config, w_session, w_frames, ds, counted,
                   w_device,
                   w_caller>>

\* a frame was read and transformed; self._frame_counter += 1
WebCount(t) ==
    /\ w_pc[t] = "read"
    /\ ds[t] \in w_open
    /\ w_class = "daheng" => ds[t] \in w_streaming
    /\ frame_counter < MaxCount
    /\ frame_counter' = frame_counter + 1
    /\ counted' = [counted EXCEPT ![t] = frame_counter + 1]
    /\ w_pc' = [w_pc EXCEPT ![t] = "test"]
    /\ UNCHANGED <<feed, call, stream, others, w_config, w_session, latest_jpeg,
                   last_timestamp, ds,
                   w_device, w_caller>>

\* if self.frame_skip and (self._frame_counter % (self.frame_skip + 1)) != 1
SkipTest(k, c) == k # 0 /\ (c % (k + 1)) # 1

\* the skip test, on the counter as it is now; a skipped iteration sets
\* the interval metric and sleeps
WebTest(t) ==
    /\ w_pc[t] = "test"
    /\ IF SkipTest(frame_skip, frame_counter)
       THEN /\ last_timestamp' = counted[t]
            /\ w_pc' = [w_pc EXCEPT ![t] = "top"]
       ELSE /\ w_pc' = [w_pc EXCEPT ![t] = "encode"]
            /\ UNCHANGED last_timestamp
    /\ UNCHANGED <<feed, call, stream, others, w_config, w_session, latest_jpeg,
                   frame_counter, ds,
                   counted, w_device, w_caller>>

\* imencode; if ret: publish under the lock; metrics; sleep
WebEncode(t, ret) ==
    /\ w_pc[t] = "encode"
    /\ latest_jpeg' = IF ret THEN counted[t] ELSE latest_jpeg
    /\ last_timestamp' = counted[t]
    /\ w_pc' = [w_pc EXCEPT ![t] = "top"]
    /\ UNCHANGED <<feed, call, stream, others, w_config, w_session, frame_counter, ds, counted,
                   w_device, w_caller>>

InitWeb ==
    /\ FeedInit
    /\ backend = "daheng"
    /\ call = NoCall
    /\ StreamInit("feed")
    /\ ConfigIdle
    /\ MetricsInit
    /\ RestIdle
    /\ \E k \in {"cv", "daheng"}, nb \in BOOLEAN, fs \in FrameSkips : WebInit(k, nb, fs)

NextWeb ==
    \/ \E o \in WebStartOutcomes : WebStart(o)
    \/ \E o \in StopOutcomes : WebStop(o)
    \/ WebStopIdle
    \/ \E o \in WebStartOutcomes : WebReconfigure(o)
    \/ ReadAndEncodeNone
    \/ ReadAndEncodeBegin
    \/ ReadAndEncodeEnd
    \/ \E t \in Threads : WebLoopTop(t)
    \/ \E t \in Threads : WebReadFails(t)
    \/ \E t \in Threads : WebCount(t)
    \/ \E t \in Threads : WebTest(t)
    \/ \E t \in Threads, ret \in BOOLEAN : WebEncode(t, ret)

SpecWeb == InitWeb /\ [][NextWeb]_vars

\* start() called on a session whose running flag is set. CameraThread:
\* if self.running: return. The camera_web DahengCameraThread.start() has
\* no such test: it opens a device again, assigns self.dev, starts the
\* stream and, in buffered mode, creates a thread; nothing closes the
\* handle self.dev held. An open that raises leaves self.dev as it was
WebStartRunning(o) ==
    /\ w_running
    /\ IF w_class = "cv"
       THEN /\ o = "ok"
            /\ w_raised' = FALSE
            /\ UNCHANGED <<w_session, w_device, w_pc, ds>>
       ELSE /\ WebOpens(o) => w_opened < MaxHandles
            /\ (o = "ok" /\ Spawns(no_buffer_mode)) => WebUnborn # {}
            /\ dev' = IF WebOpens(o) THEN WebNewHandle ELSE dev
            /\ w_opened' = IF WebOpens(o) THEN WebNewHandle ELSE w_opened
            /\ w_open' = IF WebOpens(o) THEN w_open \cup {WebNewHandle} ELSE w_open
            /\ w_streaming' = IF o = "ok" THEN w_streaming \cup {WebNewHandle}
                              ELSE w_streaming
            /\ w_running' = TRUE
            /\ w_raised' = (o # "ok")
            /\ IF o = "ok" /\ Spawns(no_buffer_mode)
               THEN /\ w_thread' = WebNewThread
                    /\ w_pc' = [w_pc EXCEPT ![WebNewThread] = "top"]
                    /\ ds' = [ds EXCEPT ![WebNewThread] = WebNewHandle]
               ELSE UNCHANGED <<w_thread, w_pc, ds>>
    /\ UNCHANGED <<feed, call, stream, others, w_config, w_frames, counted, reader>>

\* the camera_web session with start() callable at any time
NextWebApi ==
    \/ NextWeb
    \/ \E o \in WebStartOutcomes : WebStartRunning(o)

SpecWebApi == InitWeb /\ [][NextWebApi]_vars

\* ------------------------------------------- frame slot, lock, generators
Digit(d) ==
    CASE d = 0 -> "0" [] d = 1 -> "1" [] d = 2 -> "2" [] d = 3 -> "3" [] d = 4 -> "4"
      [] d = 5 -> "5" [] d = 6 -> "6" [] d = 7 -> "7" [] d = 8 -> "8" [] d = 9 -> "9"

\* str(n) for n >= 0: the decimal digits
RECURSIVE str(_)
str(n) == IF n < 10 THEN Digit(n) ELSE str(n \div 10) \o Digit(n % 10)

RECURSIVE Bytes(_)
Bytes(n) == IF n = 0 THEN "" ELSE "x" \o Bytes(n - 1)

\* the JPEG of frame f: frames differ in length, across one and two digits
Payload(f) == Bytes(4 * f + 1)

\* a part whose Content-Length counts the CRLF after the payload too
PartCountsTrailer(src, frame) ==
    "--frame\r\n" \o "Content-Type: image/jpeg\r\n" \o "Content-Length: "
        \o str(Len(frame) + 2) \o "\r\n\r\n" \o frame \o "\r\n"

\* the bytes yielded for frame; boundary is b'frame' in mjpeg_frame_generator
\* (its default, never overridden) and written out in stream.gen
Part(src, frame) ==
    IF src = "feed"
    THEN "--" \o "frame" \o "\r\n" \o "Content-Type: image/jpeg\r\n" \o "Content-Length: "
             \o str(Len(frame)) \o "\r\n\r\n" \o frame \o "\r\n"
    ELSE "--frame\r\n" \o "Content-Type: image/jpeg\r\n" \o "Content-Length: "
             \o str(Len(frame)) \o "\r\n\r\n" \o frame \o "\r\n"

Pub(t) == <<"loop", t>>
Gen(c) == <<"gen", c>>

\* start() after stop() while the earlier thread still iterates: one more
\* loop thread publishes into the slot
PubSpawn(t) ==
    /\ Spawns(g_src = "web_direct")
    /\ p_pc[t] = "unborn"
    /\ \A u \in Threads : u < t => p_pc[u] # "unborn"
    /\ p_pc' = [p_pc EXCEPT ![t] = "acquire"]
    /\ UNCHANGED <<feed, call, web, others, lock, s_latest, n_made, p_frame, generators>>

\* the acquire and imencode of an iteration, outside the lock
PubEncode(t) ==
    /\ p_pc[t] = "acquire"
    /\ n_made < MaxPublish
    /\ n_made' = n_made + 1
    /\ p_frame' = [p_frame EXCEPT ![t] = n_made + 1]
    /\ p_pc' = [p_pc EXCEPT ![t] = "encoded"]
    /\ UNCHANGED <<feed, call, web, others, lock, s_latest, generators>>

\* an iteration that has nothing to publish
PubNothing(t) ==
    /\ p_pc[t] = "acquire"
    /\ p_pc' = [p_pc EXCEPT ![t] = "sleep"]
    /\ UNCHANGED <<feed, call, web, others, lock, s_latest, n_made, p_frame, generators>>

\* with self._lock: entered
PubLock(t) ==
    /\ p_pc[t] = "encoded"
    /\ lock = None
    /\ lock' = Pub(t)
    /\ p_pc' = [p_pc EXCEPT ![t] = "locked"]
    /\ UNCHANGED <<feed, call, web, others, s_latest, n_made, p_frame, generators>>

\* a publish that holds the lock until a generator has taken the last frame
PubPublishWhenConsumed(t) ==
    /\ p_pc[t] = "locked"
    /\ \E c \in Consumers : g_frame[c] = s_latest
    /\ s_latest' = p_frame[t]
    /\ lock' = None
    /\ p_pc' = [p_pc EXCEPT ![t] = "sleep"]
    /\ UNCHANGED <<feed, call, web, others, n_made, p_frame, generators>>

\* self._latest = buf.tobytes() and the counters; the with block is left
PubPublish(t) ==
    /\ p_pc[t] = "locked"
    /\ s_latest' = p_frame[t]
    /\ lock' = None
    /\ p_pc' = [p_pc EXCEPT ![t] = "sleep"]
    /\ UNCHANGED <<feed, call, web, others, n_made, p_frame, generators>>

\* time.sleep(delay), then the next iteration
PubSleep(t) ==
    /\ p_pc[t] = "sleep"
    /\ p_pc' = [p_pc EXCEPT ![t] = "acquire"]
    /\ UNCHANGED <<feed, call, web, others, lock, s_latest, n_made, p_frame, generators>>

\* frame = cam.get_frame(): with self._lock entered
GenPoll(c) ==
    /\ g_src # "web_direct"
    /\ g_pc[c] = "poll"
    /\ lock = None
    /\ lock' = Gen(c)
    /\ g_pc' = [g_pc EXCEPT ![c] = "locked"]
    /\ UNCHANGED <<feed, call, web, others, s_latest, publishers, g_src, g_frame, g_last,
                   g_part>>

\* return self._latest; if frame is None: the generator will sleep
GenRead(c) ==
    /\ g_pc[c] = "locked"
    /\ g_frame' = [g_frame EXCEPT ![c] = s_latest]
    /\ lock' = None
    /\ g_pc' = [g_pc EXCEPT ![c] = IF s_latest = NoFrame THEN "wait" ELSE "emit"]
    /\ UNCHANGED <<feed, call, web, others, s_latest, publishers, g_src, g_last, g_part>>

\* frame = cam.read_and_encode() of a no_buffer_mode session: a capture of
\* its own in the generator, the lock is not involved; None when it fails
GenDirect(c, ok) ==
    /\ g_src = "web_direct"
    /\ g_pc[c] = "poll"
    /\ ok => n_made < MaxPublish
    /\ n_made' = IF ok THEN n_made + 1 ELSE n_made
    /\ g_frame' = [g_frame EXCEPT ![c] = IF ok THEN n_made + 1 ELSE NoFrame]
    /\ g_pc' = [g_pc EXCEPT ![c] = IF ok THEN "emit" ELSE "wait"]
    /\ UNCHANGED <<feed, call, web, others, lock, s_latest, p_pc, p_frame, g_src, g_last,
                   g_part>>

\* time.sleep(0.05) or time.sleep(0.001); continue
GenWait(c) ==
    /\ g_pc[c] = "wait"
    /\ g_pc' = [g_pc EXCEPT ![c] = "poll"]
    /\ UNCHANGED <<feed, call, web, others, lock, s_latest, publishers, g_src, g_frame, g_last,
                   g_part>>

\* yield the part; the generator goes on when the client takes the next
GenYield(c) ==
    /\ g_pc[c] = "emit"
    /\ g_part' = [g_part EXCEPT ![c] = Part(g_src, Payload(g_frame[c]))]
    /\ g_last' = [g_last EXCEPT ![c] = g_frame[c]]
    /\ g_pc' = [g_pc EXCEPT ![c] = "poll"]
    /\ UNCHANGED <<feed, call, web, others, lock, s_latest, publishers, g_src, g_frame>>

InitStream ==
    /\ FeedInit
    /\ backend = "daheng"
    /\ call = NoCall
    /\ WebInit("cv", FALSE, 0)
    /\ \E src \in {"feed", "web", "web_direct"} : StreamInit(src)
    /\ ConfigIdle
    /\ MetricsInit
    /\ RestIdle

NextStream ==
    \/ \E t \in Threads : PubSpawn(t)
    \/ \E t \in Threads : PubEncode(t)
    \/ \E t \in Threads : PubNothing(t)
    \/ \E t \in Threads : PubLock(t)
    \/ \E t \in Threads : PubPublish(t)
    \/ \E t \in Threads : PubSleep(t)
    \/ \E c \in Consumers : GenPoll(c)
    \/ \E c \in Consumers : GenRead(c)
    \/ \E c \in Consumers, ok \in BOOLEAN : GenDirect(c, ok)
    \/ \E c \in Consumers : GenWait(c)
    \/ \E c \in Consumers : GenYield(c)

\* Threads are scheduled; a thread that finds the lock free again and again
\* gets it (the lock is held for one assignment or one read); nothing is
\* assumed about clients taking parts or about threads being spawned.
FairStream ==
    /\ \A t \in Threads : WF_vars(PubPublish(t) \/ PubSleep(t)) /\ SF_vars(PubLock(t))
    /\ \A c \in Consumers :
          /\ WF_vars(GenRead(c) \/ GenWait(c) \/ \E ok \in BOOLEAN : GenDirect(c, ok))
          /\ SF_vars(GenPoll(c))

SpecStream == InitStream /\ [][NextStream]_vars /\ FairStream

\* ------------------------------------------------------- value conversions
\* camera_feed, _apply_pending_commands: what a set_exposure command whose
\* value is v pushes to ExposureTime and stores in self.exposure
FeedExposure(v) == ExposureUs(v)

\* a rule that takes only values under one millisecond as milliseconds
value_us_SubMsOnly(value) ==
    IF value < SubMsLimit THEN value * WebUsPerMs ELSE value

\* camera_web, DahengCameraThread.set_exposure: value_us, pushed and stored
value_us(value) ==
    IF value < SubMsLimit THEN value * WebUsPerMs
    ELSE IF value < WebMsLimit THEN value * WebUsPerMs
    ELSE value

\* camera_feed, create_camera_from_config: the text of the integer q is
\* matched by re.match(r'(\d+)'), which finds nothing in a text that begins
\* with '-'; the default replaces a missing match; then max(10, min(100, .))
jq_val(q) ==
    LET parsed == IF q >= 0 THEN q ELSE QualityDefault
    IN  Max(MinQuality, Min(MaxQuality, parsed))

\* camera_web, create_app and __init__: _clean_int gives int(raw), and
\* int(jpeg_quality) if jpeg_quality else 80 is what imencode receives
jpeg_quality(q) == IF q # 0 THEN q ELSE WebQualityDefault

\* length of the Python slice a[start:stop] of a sequence of n items
SliceLen(start, stop, n) ==
    LET norm(i) == IF i < 0 THEN Max(0, i + n) ELSE Min(i, n)
    IN  Max(0, norm(stop) - norm(start))

\* a crop whose origin test lets x = w_img and y = h_img through
CropOriginInclusive(w_img, h_img, x, y, w, h) ==
    IF 0 <= x /\ x <= w_img /\ 0 <= y /\ y <= h_img
    THEN <<SliceLen(x, Min(x + w, w_img), w_img), SliceLen(y, Min(y + h, h_img), h_img)>>
    ELSE <<w_img, h_img>>

\* camera_web, the ROI stage of _loop and read_and_encode: <<width, height>>
\* of frame[y:min(y+h, h_img), x:min(x+w, w_img)], or of the frame itself
Crop(w_img, h_img, x, y, w, h) ==
    IF 0 <= x /\ x < w_img /\ 0 <= y /\ y < h_img
    THEN <<SliceLen(x, Min(x + w, w_img), w_img), SliceLen(y, Min(y + h, h_img), h_img)>>
    ELSE <<w_img, h_img>>

ExposureValues == ((0 - 2)..MaxExposureValue) \cup {20000}
QualityInputs == ((0 - 2)..MaxQualityInput) \cup {500}
Dims == 1..MaxDim
Origins == (0 - 1)..(MaxDim + 1)
Extents == (0 - 1)..(MaxDim + 1)

\* a behaviour applies one conversion to one input
Called(f, a, r) ==
    /\ call.fn = "none"
    /\ UNCHANGED <<web, stream, others>>
    /\ call' = [fn |-> f, arg |-> a, out |-> r]
    /\ UNCHANGED feed

FeedExposureCall(v) == Called("feed_exposure", v, FeedExposure(v))
WebExposureCall(v) == Called("web_exposure", v, value_us(v))
FeedQualityCall(q) == Called("feed_quality", q, jq_val(q))
WebQualityCall(q) == Called("web_quality", q, jpeg_quality(q))
CropCall(w_img, h_img, x, y, w, h) ==
    Called("crop", <<w_img, h_img, x, y, w, h>>, Crop(w_img, h_img, x, y, w, h))

\* The conversions applied to every input of the sets above.
InitPure == Init /\ backend = "daheng"

NextPure ==
    \/ \E v \in ExposureValues : FeedExposureCall(v)
    \/ \E v \in ExposureValues : WebExposureCall(v)
    \/ \E q \in QualityInputs : FeedQualityCall(q)
    \/ \E q \in QualityInputs : WebQualityCall(q)
    \/ \E w_img \in Dims, h_img \in Dims, x \in Origins, y \in Origins,
          w \in Extents, h \in Extents : CropCall(w_img, h_img, x, y, w, h)

SpecPure == InitPure /\ [][NextPure]_vars

\* ------------------------------------------- Daheng property traffic
DeviceKinds ==
    {AllAttrs, AllAttrs \ {"ExposureTime", "Gain"}, AllAttrs \ {"AcquisitionFrameRate"}}
FaultSets ==
    {{}, {"ExposureAuto"}, {"Width"}, {"AcquisitionFrameRateEnable"}, {"ExposureTime"},
     {"Gain"}}

\* the set() calls of one try block, in order: the first that raises ends it
RECURSIVE Sets(_)
Sets(todo) ==
    IF todo = <<>> THEN <<>>
    ELSE LET ok == Head(todo)[1] \notin faulty
         IN  <<[attr |-> Head(todo)[1], val |-> Head(todo)[2], ok |-> ok]>>
                 \o (IF ok THEN Sets(Tail(todo)) ELSE <<>>)

\* the block was left by an exception
Raised(sets) == sets # <<>> /\ ~sets[Len(sets)].ok

Has(a) == a \in attrs

\* for attr, off_val in (("ExposureAuto", 0), ("GainAuto", 0)): if hasattr
AutoOff ==
    (IF Has("ExposureAuto") THEN <<<<"ExposureAuto", 0>>>> ELSE <<>>)
        \o (IF Has("GainAuto") THEN <<<<"GainAuto", 0>>>> ELSE <<>>)

\* Width, Height, and the frame-rate pair (True is 1), each when the value
\* is truthy and the attributes exist
FormatSets(w, h, f) ==
    (IF w # 0 /\ Has("Width") THEN <<<<"Width", w>>>> ELSE <<>>)
        \o (IF h # 0 /\ Has("Height") THEN <<<<"Height", h>>>> ELSE <<>>)
        \o (IF f # 0 /\ Has("AcquisitionFrameRateEnable") /\ Has("AcquisitionFrameRate")
            THEN <<<<"AcquisitionFrameRateEnable", 1>>, <<"AcquisitionFrameRate", f>>>>
            ELSE <<>>)

\* the set() calls of start(): nothing in safe_mode, else one try around
\* the two auto features and one try around width, height and frame rate
StartSets(sm, fmt) ==
    IF sm THEN <<>> ELSE Sets(AutoOff) \o Sets(FormatSets(fmt[1], fmt[2], fmt[3]))

Entry(s, k, sets) == [seq |-> s, kind |-> k, sets |-> sets]

\* start(): open, property pushes, stream_on; a raising stream_on leaves
\* the handle assigned; the web class has no loop thread in this model
CfgStart(o) ==
    /\ k_pc = "new"
    /\ o \in {"streamfail", "ok"}
    /\ k_dev' = TRUE
    /\ done' = Append(done, Entry(0, "start", StartSets(safe_mode, k_fmt)))
    /\ k_running' = (o = "ok")
    /\ k_pc' = IF o # "ok" THEN "failed" ELSE IF k_class = "feed" THEN "top" ELSE "idle"
    /\ UNCHANGED <<outside_config, k_device, k_class, safe_mode, k_fmt, k_queue, k_cur,
                   k_reported>>

\* stop(): flag and handle cleared; the loop thread is not joined
CfgStop ==
    /\ k_pc \notin {"new", "failed"}
    /\ k_running
    /\ k_running' = FALSE
    /\ k_dev' = FALSE
    /\ UNCHANGED <<outside_config, k_device, k_class, safe_mode, k_fmt, k_queue, k_loop,
                   k_reported, done>>

\* self._cmd_q.put(c) of the camera_feed setters
CfgEnqueue(k, a, b, c) ==
    /\ k_class = "feed"
    /\ k_n < MaxCmds
    /\ k_q' = Append(k_q, Cmd(k, a, b, c, k_n + 1))
    /\ k_n' = k_n + 1

CfgSetExposure(v) ==
    /\ CfgEnqueue("set_exposure", v, 0, 0)
    /\ UNCHANGED <<outside_config, k_device, k_session, k_loop, k_reported, done>>

CfgSetGain(v) ==
    /\ CfgEnqueue("set_gain", v, 0, 0)
    /\ UNCHANGED <<outside_config, k_device, k_session, k_loop, k_reported, done>>

\* camera_feed reconfigure(): the fields, then one set_format command
CfgReconfigure(w, h, f) ==
    /\ k_fmt' = <<OrDefault(w, k_fmt[1]), OrDefault(h, k_fmt[2]), OrDefault(f, k_fmt[3])>>
    /\ CfgEnqueue("set_format", k_fmt'[1], k_fmt'[2], k_fmt'[3])
    /\ UNCHANGED <<outside_config, k_device, k_class, safe_mode, k_running, k_dev, k_loop,
                   k_reported, done>>

\* while self.running and not self._stop_evt.is_set()
CfgLoopTop ==
    /\ k_pc = "top"
    /\ k_pc' = IF k_running THEN "drain" ELSE "exited"
    /\ UNCHANGED <<outside_config, k_device, k_session, k_queue, k_cur, k_reported, done>>

\* cmd, val = self._cmd_q.get_nowait()
CfgDequeue ==
    /\ k_pc = "drain"
    /\ k_q # <<>>
    /\ k_cur' = Head(k_q)
    /\ k_q' = Tail(k_q)
    /\ k_pc' = "apply"
    /\ UNCHANGED <<outside_config, k_device, k_session, k_n, k_reported, done>>

\* a set_format that is applied in safe_mode too
ApplySetsIgnoringSafeMode(c) ==
    CASE c.kind = "set_exposure" ->
            IF k_dev /\ Has("ExposureTime")
            THEN Sets(<<<<"ExposureTime", ExposureUs(c.a)>>>>) ELSE <<>>
      [] c.kind = "set_gain" ->
            IF k_dev /\ Has("Gain") THEN Sets(<<<<"Gain", c.a>>>>) ELSE <<>>
      [] c.kind = "set_format" ->
            IF k_dev THEN Sets(FormatSets(c.a, c.b, c.c)) ELSE <<>>

\* the set() calls made for command c by _apply_pending_commands
ApplySets(c) ==
    CASE c.kind = "set_exposure" ->
            IF k_dev /\ Has("ExposureTime")
            THEN Sets(<<<<"ExposureTime", ExposureUs(c.a)>>>>) ELSE <<>>
      [] c.kind = "set_gain" ->
            IF k_dev /\ Has("Gain") THEN Sets(<<<<"Gain", c.a>>>>) ELSE <<>>
      [] c.kind = "set_format" ->
            IF ~safe_mode /\ k_dev THEN Sets(FormatSets(c.a, c.b, c.c)) ELSE <<>>

\* self.exposure after command c: `self.exposure = v_us` follows the guarded
\* set() and is skipped only when that raised
CfgExposureAfter(c, sets) ==
    IF c.kind = "set_exposure" /\ ~Raised(sets) THEN Some(ExposureUs(c.a)) ELSE k_exposure

\* self.gain after command c: `self.gain = v` is inside the guard
CfgGainAfter(c, sets) ==
    IF c.kind = "set_gain" /\ k_dev /\ Has("Gain") /\ ~Raised(sets)
    THEN Some(c.a) ELSE k_gain

\* a drain that an exception ends, together with the iteration
AfterApplyRaiseEndsIteration(sets) == IF Raised(sets) THEN "top" ELSE "drain"

\* where the drain goes after a command: an exception is printed inside the
\* while, which continues
AfterApply(sets) == "drain"

\* the command taken is applied
CfgApply ==
    /\ k_pc = "apply"
    /\ LET sets == ApplySets(k_cur) IN
        /\ k_exposure' = CfgExposureAfter(k_cur, sets)
        /\ k_gain' = CfgGainAfter(k_cur, sets)
        /\ done' = Append(done, Entry(k_cur.seq, k_cur.kind, sets))
        /\ k_pc' = AfterApply(sets)
    /\ k_cur' = NoCmd
    /\ UNCHANGED <<outside_config, k_device, k_session, k_queue>>

\* the queue is empty: _apply_pending_commands returns, _capture_once begins
CfgDrainDone ==
    /\ k_pc = "drain"
    /\ k_q = <<>>
    /\ k_pc' = "acquire"
    /\ UNCHANGED <<outside_config, k_device, k_session, k_queue, k_cur, k_reported, done>>

\* _capture_once and the rest of the iteration
CfgCapture ==
    /\ k_pc = "acquire"
    /\ k_pc' = "top"
    /\ UNCHANGED <<outside_config, k_device, k_session, k_queue, k_cur, k_reported, done>>

\* camera_web set_exposure(): the guarded set() swallows its exception and
\* self.exposure is assigned in every case
CfgWebSetExposure(v) ==
    /\ k_class = "web"
    /\ k_n < MaxCmds
    /\ k_n' = k_n + 1
    /\ LET sets == IF k_dev /\ Has("ExposureTime")
                   THEN Sets(<<<<"ExposureTime", value_us(v)>>>>) ELSE <<>> IN
        done' = Append(done, Entry(k_n + 1, "set_exposure", sets))
    /\ k_exposure' = Some(value_us(v))
    /\ UNCHANGED <<outside_config, k_device, k_session, k_q, k_loop, k_gain>>

\* camera_web set_gain()
CfgWebSetGain(v) ==
    /\ k_class = "web"
    /\ k_n < MaxCmds
    /\ k_n' = k_n + 1
    /\ LET sets == IF k_dev /\ Has("Gain") THEN Sets(<<<<"Gain", v>>>>) ELSE <<>> IN
        done' = Append(done, Entry(k_n + 1, "set_gain", sets))
    /\ k_gain' = Some(v)
    /\ UNCHANGED <<outside_config, k_device, k_session, k_q, k_loop, k_exposure>>

\* camera_web reconfigure() on a running session: stop(), the fields, start()
CfgWebReconfigure(w, h, f, o) ==
    /\ k_class = "web"
    /\ k_running
    /\ k_n < MaxCmds
    /\ k_n' = k_n + 1
    /\ o \in {"streamfail", "ok"}
    /\ k_fmt' = <<OrDefault(w, k_fmt[1]), OrDefault(h, k_fmt[2]), OrDefault(f, k_fmt[3])>>
    /\ done' = Append(done, Entry(0, "start", StartSets(safe_mode, k_fmt')))
    /\ k_dev' = TRUE
    /\ k_running' = (o = "ok")
    /\ k_pc' = IF o = "ok" THEN "idle" ELSE "failed"
    /\ UNCHANGED <<outside_config, k_device, k_class, safe_mode, k_q, k_cur, k_reported>>

\* camera_web has no safe_mode
InitConfig ==
    /\ FeedInit
    /\ backend = "daheng"
    /\ call = NoCall
    /\ WebInit("cv", FALSE, 0)
    /\ StreamInit("feed")
    /\ \E k \in {"feed", "web"}, sm \in BOOLEAN, has \in DeviceKinds, bad \in FaultSets :
          /\ k = "web" => ~sm
          /\ ConfigInit(k, sm, has, bad)
    /\ MetricsInit
    /\ RestIdle

NextConfig ==
    \/ \E o \in {"streamfail", "ok"} : CfgStart(o)
    \/ CfgStop
    \/ \E v \in ExposureInputs : CfgSetExposure(v)
    \/ \E v \in GainInputs : CfgSetGain(v)
    \/ \E r \in ReconfInputs : CfgReconfigure(r[1], r[2], r[3])
    \/ CfgLoopTop
    \/ CfgDequeue
    \/ CfgApply
    \/ CfgDrainDone
    \/ CfgCapture
    \/ \E v \in ExposureInputs : CfgWebSetExposure(v)
    \/ \E v \in GainInputs : CfgWebSetGain(v)
    \/ \E r \in ReconfInputs, o \in {"streamfail", "ok"} :
          CfgWebReconfigure(r[1], r[2], r[3], o)

SpecConfig == InitConfig /\ [][NextConfig]_vars

\* ------------------------------------------------- camera_web, _metrics
\* the capture, transform and encode of an iteration are over;
\* m['frames_total'] += 1 begins by reading the entry
MLoopRead ==
    /\ m_lpc = "pipeline"
    /\ m_iters < MaxIters
    /\ m_lval' = m_frames
    /\ m_lpc' = "add"
    /\ UNCHANGED <<outside_metrics, m_dict, m_iters, m_gens>>

\* the sum is stored; the other entries follow and the iteration ends
MLoopWrite ==
    /\ m_lpc = "add"
    /\ m_frames' = m_lval + 1
    /\ m_iters' = m_iters + 1
    /\ m_lpc' = "pipeline"
    /\ UNCHANGED <<outside_metrics, m_served, m_lval, m_gens>>

InFlight == {c \in Consumers : m_pc[c] # "poll"}

\* frame = cam.get_frame() returned a frame
MGenFrame(c) ==
    /\ m_pc[c] = "poll"
    /\ m_emitted + Cardinality(InFlight) < MaxServed
    /\ m_pc' = [m_pc EXCEPT ![c] = "count"]
    /\ UNCHANGED <<outside_metrics, m_dict, m_loop, m_val, m_emitted>>

\* m.get('served_frames_total', 0)
MGenRead(c) ==
    /\ m_pc[c] = "count"
    /\ m_val' = [m_val EXCEPT ![c] = m_served]
    /\ m_pc' = [m_pc EXCEPT ![c] = "add"]
    /\ UNCHANGED <<outside_metrics, m_dict, m_loop, m_emitted>>

\* m['served_frames_total'] = ... + 1
MGenWrite(c) ==
    /\ m_pc[c] = "add"
    /\ m_served' = m_val[c] + 1
    /\ m_pc' = [m_pc EXCEPT ![c] = "yield"]
    /\ UNCHANGED <<outside_metrics, m_frames, m_loop, m_val, m_emitted>>

\* the part is yielded
MGenYield(c) ==
    /\ m_pc[c] = "yield"
    /\ m_emitted' = m_emitted + 1
    /\ m_pc' = [m_pc EXCEPT ![c] = "poll"]
    /\ UNCHANGED <<outside_metrics, m_dict, m_loop, m_val>>

InitMetrics ==
    /\ FeedInit
    /\ backend = "daheng"
    /\ call = NoCall
    /\ WebInit("cv", FALSE, 0)
    /\ StreamInit("web")
    /\ ConfigInit("web", FALSE, AllAttrs, {})
    /\ MetricsInit
    /\ RestIdle

NextMetrics ==
    \/ MLoopRead
    \/ MLoopWrite
    \/ \E c \in Consumers : MGenFrame(c)
    \/ \E c \in Consumers : MGenRead(c)
    \/ \E c \in Consumers : MGenWrite(c)
    \/ \E c \in Consumers : MGenYield(c)

SpecMetrics == InitMetrics /\ [][NextMetrics]_vars

\* ------------------------------------------------------------ run_stepper
\* Lengths are in tenths of a millimetre, ramp fractions in hundredths.
StepInputs == {0 - 12, 0 - 3, 0, 3, 12}
RampInputs == {0 - 10, 0, 15, 50, 70}
DistInputs == {0 - 5, 0, 1, 3, 5}
PitchInputs == {0 - 80, 0, 80}
TravelInputs == {0, 4}
SprInputs == {200}

Abs(n) == IF n >= 0 THEN n ELSE 0 - n

\* round(): to the nearest integer, a half to the even neighbour
Round(num, den) ==
    LET q == num \div den
        r == num % den
    IN  IF 2 * r < den THEN q
        ELSE IF 2 * r > den THEN q + 1
        ELSE IF q % 2 = 0 THEN q ELSE q + 1

\* mm_to_steps: int(round((mm / pitch) * spr)), for a pitch above 0
mm_to_steps(mm, pitch, spr) == Round(mm * spr, pitch)

\* a move_mm that refuses what exceeds the travel limit
ExecutedWithinLimit(mm, limit_check, max_travel) ==
    IF limit_check /\ max_travel > 0 /\ Abs(mm) > max_travel
    THEN IF mm > 0 THEN max_travel ELSE 0 - max_travel
    ELSE mm

\* move_mm: the distance that is converted and moved; the limit only warns
Executed(mm, limit_check, max_travel) == mm

\* the direction every step is taken in, whatever the sign
DirectionForward(n) == "forward"

\* direction = 'forward' if steps > 0 else 'backward'
Direction(n) == IF n > 0 THEN "forward" ELSE "backward"

\* stepper.FORWARD if direction == 'forward' else stepper.BACKWARD
step_dir_enum(n) == IF Direction(n) = "forward" THEN "FORWARD" ELSE "BACKWARD"

\* steps_remaining = abs(steps)
steps_remaining == Abs(mv_n)

\* ramp_fraction = max(0.0, min(ramp_fraction, 0.5))
ramp_fraction == Max(0, Min(mv_in.ramp, 50))

\* if not enable_ramp or steps_remaining < 10 or ramp_fraction == 0
FlatProfile == ~mv_in.enable_ramp \/ steps_remaining < 10 \/ ramp_fraction = 0

\* ramp_steps = max(1, int(steps_remaining * ramp_fraction))
ramp_steps == Max(1, (steps_remaining * ramp_fraction) \div 100)
decel_start == steps_remaining - ramp_steps

\* the branch of the speed factor taken for loop index i
Phase(i) ==
    IF FlatProfile THEN "flat"
    ELSE IF i < ramp_steps THEN "accel"
    ELSE IF i >= decel_start THEN "decel"
    ELSE "cruise"

MoveStepsArgs ==
    {[fn |-> "move_steps", steps |-> n, release |-> rel, ramp |-> rf, enable_ramp |-> en] :
        n \in StepInputs, rel \in BOOLEAN, rf \in RampInputs, en \in BOOLEAN}
MoveMmArgs ==
    {[fn |-> "move_mm", mm |-> d, pitch |-> sp, spr |-> r, max_travel |-> mt,
      limit_check |-> lc, release |-> rel, ramp |-> rf, enable_ramp |-> TRUE] :
        d \in DistInputs, sp \in PitchInputs, r \in SprInputs, mt \in TravelInputs,
        lc \in BOOLEAN, rel \in BOOLEAN, rf \in {15}}

\* move_mm up to its move_steps call: mm_to_steps raises ValueError for a
\* pitch that is not above 0; the limit check prints and goes on
MoveMm ==
    /\ mv_pc = "move_mm"
    /\ IF mv_in.pitch <= 0
       THEN /\ mv_pc' = "raised"
            /\ UNCHANGED <<mv_n, mv_warned>>
       ELSE /\ mv_n' = mm_to_steps(Executed(mv_in.mm, mv_in.limit_check, mv_in.max_travel),
                                   mv_in.pitch, mv_in.spr)
            /\ mv_warned' = (/\ mv_in.limit_check
                             /\ mv_in.max_travel > 0
                             /\ Abs(mv_in.mm) > mv_in.max_travel)
            /\ mv_pc' = "move_steps"
    /\ UNCHANGED <<outside_motor, mv_in, mv_i, mv_log, mv_ret>>

\* move_steps: if steps == 0: return; else on to the step loop
MoveStepsEnter ==
    /\ mv_pc = "move_steps"
    /\ mv_pc' = IF mv_n = 0 THEN "returned" ELSE "loop"
    /\ mv_i' = 0
    /\ UNCHANGED <<outside_motor, mv_in, mv_n, mv_log, mv_ret, mv_warned>>

\* one pass of either for loop: stepper_obj.onestep(direction, style)
OneStep ==
    /\ mv_pc = "loop"
    /\ mv_i < steps_remaining
    /\ mv_log' = Append(mv_log, [op |-> "onestep", direction |-> step_dir_enum(mv_n),
                                 phase |-> Phase(mv_i)])
    /\ mv_i' = mv_i + 1
    /\ UNCHANGED <<outside_motor, mv_in, mv_pc, mv_n, mv_ret, mv_warned>>

\* after the loop: if release: stepper_obj.release()
LoopEnd ==
    /\ mv_pc = "loop"
    /\ mv_i = steps_remaining
    /\ mv_log' = IF mv_in.release
                 THEN Append(mv_log, [op |-> "release", direction |-> "", phase |-> ""])
                 ELSE mv_log
    /\ mv_pc' = "returned"
    /\ UNCHANGED <<outside_motor, mv_in, mv_n, mv_i, mv_ret, mv_warned>>

\* move_mm: return steps
MoveMmReturn ==
    /\ mv_pc = "returned"
    /\ mv_in.fn = "move_mm"
    /\ mv_ret' = Some(mv_n)
    /\ mv_pc' = "done"
    /\ UNCHANGED <<outside_motor, mv_in, mv_n, mv_i, mv_log, mv_warned>>

InitStepper ==
    /\ FeedInit
    /\ backend = "daheng"
    /\ call = NoCall
    /\ WebInit("cv", FALSE, 0)
    /\ StreamInit("feed")
    /\ ConfigIdle
    /\ MetricsInit
    /\ DirectIdle
    /\ FactoryIdle
    /\ LoaderIdle
    /\ mv_in \in MoveStepsArgs \cup MoveMmArgs
    /\ mv_pc = mv_in.fn
    /\ mv_n = IF mv_in.fn = "move_steps" THEN mv_in.steps ELSE 0
    /\ mv_i = 0
    /\ mv_log = <<>>
    /\ mv_ret = None
    /\ mv_warned = FALSE

NextStepper ==
    \/ MoveMm
    \/ MoveStepsEnter
    \/ OneStep
    \/ LoopEnd
    \/ MoveMmReturn

SpecStepper == InitStepper /\ [][NextStepper]_vars

\* ------------------------------------- camera_web, read_and_encode in full
MaxFlush == 3
FlushInputs == 0..MaxFlush

\* a flush that keeps the frame of the first read
KeptFirst(old, new) == IF old # NoFrame THEN old ELSE new

\* ok, frame = ok2, f2: the frame of the flush read replaces the one held
Kept(old, new) == new

\* the extra reads a session makes: range(self.flush_reads) in
\* CameraThread; the Daheng read_and_encode has no flush loop
FlushReads == IF rd_in.class = "cv" THEN rd_in.flush_reads ELSE 0

DirectArgs ==
    {[class |-> k, no_buffer_mode |-> nb, opened |-> op, flush_reads |-> n] :
        k \in {"cv", "daheng"}, nb \in BOOLEAN, op \in BOOLEAN, n \in FlushInputs}

\* if not self.no_buffer_mode or self.cap is None: return None
RdEnter ==
    /\ rd_pc = "enter"
    /\ rd_pc' = IF rd_in.no_buffer_mode /\ rd_in.opened THEN "read" ELSE "returned"
    /\ UNCHANGED <<outside_direct, rd_in, rd_i, rd_ok, rd_frame, rd_log, rd_enc, rd_ret>>

\* ok, frame = self.cap.read() / raw_image = ds.get_image(timeout=100)
RdRead(ok) ==
    /\ rd_pc = "read"
    /\ rd_log' = Append(rd_log, ok)
    /\ rd_ok' = ok
    /\ rd_frame' = IF ok THEN Len(rd_log) + 1 ELSE NoFrame
    /\ rd_i' = 0
    /\ rd_pc' = "flush"
    /\ UNCHANGED <<outside_direct, rd_in, rd_enc, rd_ret>>

\* one pass of the flush loop: a failing read breaks, a good one replaces
\* ok and frame
RdFlush(ok2) ==
    /\ rd_pc = "flush"
    /\ rd_i < FlushReads
    /\ rd_log' = Append(rd_log, ok2)
    /\ IF ok2
       THEN /\ rd_ok' = TRUE
            /\ rd_frame' = Kept(rd_frame, Len(rd_log) + 1)
            /\ rd_i' = rd_i + 1
            /\ UNCHANGED rd_pc
       ELSE /\ rd_pc' = "check"
            /\ UNCHANGED <<rd_ok, rd_frame, rd_i>>
    /\ UNCHANGED <<outside_direct, rd_in, rd_enc, rd_ret>>

\* the flush loop ran out
RdFlushDone ==
    /\ rd_pc = "flush"
    /\ rd_i = FlushReads
    /\ rd_pc' = "check"
    /\ UNCHANGED <<outside_direct, rd_in, rd_i, rd_ok, rd_frame, rd_log, rd_enc, rd_ret>>

\* if not ok: return None (Daheng: raw_image or the array is None)
RdCheck ==
    /\ rd_pc = "check"
    /\ rd_pc' = IF rd_ok THEN "encode" ELSE "returned"
    /\ UNCHANGED <<outside_direct, rd_in, rd_i, rd_ok, rd_frame, rd_log, rd_enc, rd_ret>>

\* ret, buf = cv2.imencode(...); if not ret: return None; return the bytes
RdEncode(ret) ==
    /\ rd_pc = "encode"
    /\ rd_enc' = Some(ret)
    /\ rd_ret' = IF ret THEN Some(rd_frame) ELSE None
    /\ rd_pc' = "returned"
    /\ UNCHANGED <<outside_direct, rd_in, rd_i, rd_ok, rd_frame, rd_log>>

InitDirect ==
    /\ FeedInit
    /\ backend = "daheng"
    /\ call = NoCall
    /\ WebInit("cv", FALSE, 0)
    /\ StreamInit("feed")
    /\ ConfigIdle
    /\ MetricsInit
    /\ MotorIdle
    /\ FactoryIdle
    /\ LoaderIdle
    /\ rd_in \in DirectArgs
    /\ rd_pc = "enter"
    /\ rd_i = 0
    /\ rd_ok = FALSE
    /\ rd_frame = NoFrame
    /\ rd_log = <<>>
    /\ rd_enc = None
    /\ rd_ret = None

NextDirect ==
    \/ RdEnter
    \/ \E ok \in BOOLEAN : RdRead(ok)
    \/ \E ok \in BOOLEAN : RdFlush(ok)
    \/ RdFlushDone
    \/ RdCheck
    \/ \E ret \in BOOLEAN : RdEncode(ret)

SpecDirect == InitDirect /\ [][NextDirect]_vars

\* ------------------------------------ camera_feed, create_camera_from_config
ScanEnd == 6                \* for alt in range(0, 6)
OpenCVDevice(n) == [kind |-> "opencv", device |-> n]
PathDevice == [kind |-> "path", device |-> 0]
DahengDevice == [kind |-> "daheng", device |-> 1]

\* the devices that open, in the configurations explored
GoodSets == {{}, {3}, {0, 4}, {2, 5}, {7}}
\* what stops a Daheng session: gxipy missing, or a start() outcome
DahengOutcomes == {"nosdk"} \cup StartOutcomes

FactoryArgs ==
    {[backend |-> "opencv", device |-> d, daheng |-> "nosdk", good |-> g] :
        d \in {OpenCVDevice(0), OpenCVDevice(2), OpenCVDevice(7), PathDevice},
        g \in GoodSets}
    \cup
    {[backend |-> "daheng", device |-> DahengDevice, daheng |-> o, good |-> g] :
        o \in DahengOutcomes, g \in GoodSets}

\* whether start() of session c succeeds
Starts(c) ==
    IF c.kind = "daheng" THEN StartRuns(fc_in.daheng)
    ELSE IF c.kind = "opencv" THEN c.device \in fc_in.good
    ELSE FALSE

\* DahengCameraThread.__init__: if gx is None: raise RuntimeError, before
\* the try that holds cam.start()
ConstructRaises(c) == c.kind = "daheng" /\ fc_in.daheng = "nosdk"

\* cam = OpenCVCameraThread(...) / DahengCameraThread(...)
FcConstruct ==
    /\ fc_pc = "construct"
    /\ fc_tried' = Append(fc_tried, fc_in.device)
    /\ IF ConstructRaises(fc_in.device)
       THEN fc_pc' = "raised" /\ UNCHANGED fc_cam
       ELSE fc_pc' = "start" /\ fc_cam' = Some(fc_in.device)
    /\ UNCHANGED <<outside_factory, fc_in, fc_alt, fc_threads>>

\* try: cam.start(); on an exception the scan, or the exception again for
\* an OpenCV device that is not an integer
FcStart ==
    /\ fc_pc = "start"
    /\ LET c == fc_in.device IN
        IF Starts(c)
        THEN /\ fc_threads' = fc_threads \cup {c}
             /\ fc_pc' = "returned"
             /\ UNCHANGED fc_alt
        ELSE /\ fc_pc' = IF c.kind = "path" THEN "raised" ELSE "scan"
             /\ fc_alt' = 0
             /\ UNCHANGED fc_threads
    /\ UNCHANGED <<outside_factory, fc_in, fc_tried, fc_cam>>

\* if alt == cam.device: continue
FcScanSkip ==
    /\ fc_pc = "scan"
    /\ fc_alt < ScanEnd
    /\ fc_in.backend = "opencv"
    /\ fc_alt = fc_in.device.device
    /\ fc_alt' = fc_alt + 1
    /\ UNCHANGED <<outside_factory, fc_in, fc_pc, fc_tried, fc_cam, fc_threads>>

\* alt_cam = OpenCVCameraThread(device=alt, ...); alt_cam.start(); on
\* success cam = alt_cam and break, on an exception continue
FcScanTry ==
    /\ fc_pc = "scan"
    /\ fc_alt < ScanEnd
    /\ fc_in.backend = "opencv" => fc_alt # fc_in.device.device
    /\ fc_tried' = Append(fc_tried, OpenCVDevice(fc_alt))
    /\ IF Starts(OpenCVDevice(fc_alt))
       THEN /\ fc_cam' = Some(OpenCVDevice(fc_alt))
            /\ fc_threads' = fc_threads \cup {OpenCVDevice(fc_alt)}
            /\ fc_pc' = "returned"
            /\ UNCHANGED fc_alt
       ELSE /\ fc_alt' = fc_alt + 1
            /\ UNCHANGED <<fc_pc, fc_cam, fc_threads>>
    /\ UNCHANGED <<outside_factory, fc_in>>

\* the for loop ran out: else: raise RuntimeError
FcScanFails ==
    /\ fc_pc = "scan"
    /\ fc_alt = ScanEnd
    /\ fc_pc' = "raised"
    /\ UNCHANGED <<outside_factory, fc_in, fc_alt, fc_tried, fc_cam, fc_threads>>

InitFactory ==
    /\ FeedInit
    /\ backend = "daheng"
    /\ call = NoCall
    /\ WebInit("cv", FALSE, 0)
    /\ StreamInit("feed")
    /\ ConfigIdle
    /\ MetricsInit
    /\ MotorIdle
    /\ DirectIdle
    /\ LoaderIdle
    /\ fc_in \in FactoryArgs
    /\ fc_pc = "construct"
    /\ fc_alt = 0
    /\ fc_tried = <<>>
    /\ fc_cam = None
    /\ fc_threads = {}

NextFactory ==
    \/ FcConstruct
    \/ FcStart
    \/ FcScanSkip
    \/ FcScanTry
    \/ FcScanFails

SpecFactory == InitFactory /\ [][NextFactory]_vars

\* ------------------------------------------- camera_feed, the module's import
\* A statement binds names, tries an import, opens a class body, or
\* assigns an attribute of the object a name refers to.
Bind(names) == [op |-> "bind", names |-> names, on |-> ""]
TryImport(name) == [op |-> "try_import", names |-> {name}, on |-> ""]
Class(name) == [op |-> "class", names |-> {name}, on |-> ""]
SetAttr(obj, attr) == [op |-> "setattr", names |-> {attr}, on |-> obj]

\* the statements of camera_feed.py at module level, in order
ModuleBody ==
    << Bind({"time", "threading", "configparser"}),
       Bind({"Path"}),
       Bind({"Optional"}),
       Bind({"queue"}),
       TryImport("cv2"),
       TryImport("gx"),
       Bind({"CONFIG_FILENAME"}),
       Class("_BaseCameraThread"),
       Class("OpenCVCameraThread"),
       Class("DahengCameraThread"),
       Bind({"load_camera_config"}),
       Bind({"create_camera_from_config"}),
       Bind({"mjpeg_frame_generator"}) >>

\* the statements of each class body, in order
ClassBody(c) ==
    IF c = "_BaseCameraThread"
    THEN << Bind({"start"}), Bind({"stop"}), Bind({"get_frame"}), Bind({"reconfigure"}),
            Bind({"set_exposure"}), Bind({"set_gain"}) >>
    ELSE IF c = "OpenCVCameraThread"
    THEN << Bind({"__init__"}), Bind({"start"}), Bind({"stop"}), Bind({"_loop"}),
            Bind({"get_frame"}), Bind({"reconfigure"}), Bind({"set_exposure"}),
            Bind({"set_gain"}), Bind({"get_status"}) >>
    ELSE << Bind({"__init__"}),
            SetAttr("self", "_cmd_q"),
            SetAttr("self", "_stop_evt"),
            SetAttr("self", "_consecutive_empty"),
            SetAttr("self", "timeout_ms"),
            Bind({"start"}), Bind({"stop"}), Bind({"_loop"}), Bind({"_capture_once"}),
            Bind({"_apply_pending_commands"}), Bind({"get_frame"}),
            Bind({"reconfigure"}), Bind({"set_exposure"}), Bind({"set_gain"}),
            Bind({"get_status"}) >>

\* the attributes DahengCameraThread.__init__ assigns on self
InitAssigns ==
    {"index", "serial", "width", "height", "fps", "jpeg_quality", "flip_mode",
     "safe_mode", "running", "thread", "_lock", "_latest", "no_buffer_mode",
     "exposure", "gain", "cam", "last_frame_time", "frame_fail_count"}

\* names of the builtins the module's statements could refer to
Builtins == {"int", "str", "float", "max", "min", "print", "Exception", "RuntimeError"}

Loading == ld_err = None /\ ld_i \in DOMAIN ModuleBody
ClassName == CHOOSE c \in ModuleBody[ld_i].names : TRUE
InClass == Loading /\ ld_j > 0 /\ ld_j <= Len(ClassBody(ClassName))
Statement == IF ld_j = 0 THEN ModuleBody[ld_i] ELSE ClassBody(ClassName)[ld_j]

\* import, def, assignment of a name: bound in the module, or in the class
\* namespace when inside a class body
LdBind ==
    /\ Loading
    /\ ld_j = 0 \/ InClass
    /\ Statement.op = "bind"
    /\ IF ld_j = 0
       THEN /\ ld_globals' = ld_globals \cup Statement.names
            /\ ld_i' = ld_i + 1
            /\ UNCHANGED <<ld_j, ld_class>>
       ELSE /\ ld_class' = ld_class \cup Statement.names
            /\ ld_j' = ld_j + 1
            /\ UNCHANGED <<ld_i, ld_globals>>
    /\ UNCHANGED <<outside_loader, ld_in, ld_none, ld_err>>

\* try: import cv2 / gxipy as gx; except Exception: the name = None
LdTryImport ==
    /\ Loading
    /\ ld_j = 0
    /\ Statement.op = "try_import"
    /\ ld_globals' = ld_globals \cup Statement.names
    /\ ld_none' = ld_none \cup {n \in Statement.names : ~ld_in[n]}
    /\ ld_i' = ld_i + 1
    /\ UNCHANGED <<outside_loader, ld_in, ld_j, ld_class, ld_err>>

\* class C(...): the body begins with an empty namespace
LdClassEnter ==
    /\ Loading
    /\ ld_j = 0
    /\ Statement.op = "class"
    /\ ld_j' = 1
    /\ ld_class' = {}
    /\ UNCHANGED <<outside_loader, ld_in, ld_i, ld_globals, ld_none, ld_err>>

\* the body ran to its end: the class is created and its name bound
LdClassExit ==
    /\ Loading
    /\ ld_j > Len(ClassBody(ClassName))
    /\ ld_globals' = ld_globals \cup {ClassName}
    /\ ld_i' = ld_i + 1
    /\ ld_j' = 0
    /\ UNCHANGED <<outside_loader, ld_in, ld_none, ld_class, ld_err>>

\* obj.attr = value in a class body: obj is looked up in the class
\* namespace, the module and the builtins; a name found nowhere raises
\* NameError, which ends the import
LdSetAttr ==
    /\ InClass
    /\ Statement.op = "setattr"
    /\ IF Statement.on \in ld_class \cup ld_globals \cup Builtins
       THEN ld_j' = ld_j + 1 /\ UNCHANGED ld_err
       ELSE ld_err' = Some("NameError") /\ UNCHANGED ld_j
    /\ UNCHANGED <<outside_loader, ld_in, ld_i, ld_globals, ld_none, ld_class>>

InitLoader ==
    /\ FeedInit
    /\ backend = "daheng"
    /\ call = NoCall
    /\ WebInit("cv", FALSE, 0)
    /\ StreamInit("feed")
    /\ ConfigIdle
    /\ MetricsInit
    /\ MotorIdle
    /\ DirectIdle
    /\ FactoryIdle
    /\ ld_in \in [cv2 : BOOLEAN, gx : BOOLEAN]
    /\ ld_i = 1
    /\ ld_j = 0
    /\ ld_globals = {}
    /\ ld_none = {}
    /\ ld_class = {}
    /\ ld_err = None

NextLoader ==
    \/ LdBind
    \/ LdTryImport
    \/ LdClassEnter
    \/ LdClassExit
    \/ LdSetAttr

SpecLoader == InitLoader /\ [][NextLoader]_vars

\* every step loop thread t can take, of either class
ThreadStep(t) ==
    \/ LoopTop(t) \/ DrainDone(t) \/ Dequeue(t)
    \/ (\E raises \in BOOLEAN : Apply(t, raises))
    \/ Acquire(t) \/ CaptureFrame(t) \/ CaptureNoPublish(t) \/ CaptureRaises(t)
    \/ Pace(t)
    \/ OLoopTop(t) \/ OAcquire(t) \/ OCaptureFrame(t) \/ OCaptureFails(t)
    \/ OCaptureNoPublish(t) \/ OPace(t)

\* The sessions of Spec with threads that are scheduled: a loop thread that
\* can take a step eventually takes one (sleeps and acquires with a timeout
\* return). Nothing is assumed about when callers call.
SpecFair == Spec /\ \A t \in Threads : WF_vars(ThreadStep(t))

\* ------------------------------------------------------------------ claims
Iterators == {t \in Threads : Iterating(t)}

\* C1 (as claimed): at any time at most one loop thread of the session is
\* inside the body of a loop iteration, whatever start(), stop() and
\* reconfigure() calls came before.
C1_AtMostOneLoopThread == Cardinality(Iterators) <= 1

\* C2 (as claimed): get_frame() returns None while no frame was ever
\* published, and from the return of stop() until the next start().
C2_NoneBeforeFirstFrameAndAfterStop ==
    (last_pub = NoFrame \/ stopped) => get_frame = NoFrame

\* a step that calls into the device or assigns the handle reference
HandleTouched == cam' # cam \/ open' # open \/ streaming' # streaming
\* a step taken by a loop thread that was already alive
LoopThreadStep == \E t \in Threads : Live(t) /\ pc'[t] # pc[t]

\* C3 (as claimed): while a loop thread is alive, every step that calls
\* into the device or assigns the handle reference is a step of a loop
\* thread; stop() on a caller's thread does neither.
C3_HandleOnlyByLoopThread ==
    [][(LiveThreads # {} /\ HandleTouched) => LoopThreadStep]_vars

\* a command enqueued as number s that has not been applied yet: still in
\* the queue, or taken from it by a thread that has not applied it
Pending(s) ==
    \/ \E i \in DOMAIN cmd_q : cmd_q[i].seq = s
    \/ \E u \in Threads : cur[u].seq = s
ApplyStep(t) == pc[t] = "apply" /\ pc'[t] = "drain"

\* C4 (as claimed): commands reach the backend in the order of their
\* enqueueing: when a command is applied, no command enqueued before it is
\* still waiting to be applied.
C4_AppliedInEnqueueOrder ==
    [][\A t \in Threads : ApplyStep(t) =>
          \A s \in 1..(cur[t].seq - 1) : ~Pending(s)]_vars

\* the stall check after the pacing sleep finds the counter at the threshold
EntersRecovery(t) ==
    /\ pc[t] = "pace"
    /\ pc'[t] \notin {"pace", "crashed"}
    /\ consecutive_empty >= Threshold(fps)

\* C5 (as claimed): every time the loop enters recovery a soft restart is
\* begun first, and the reopen escalation is begun only from a soft restart
\* whose stream_on raised.
C5_SoftRestartFirst ==
    [][\A t \in Threads :
          /\ EntersRecovery(t) => pc'[t] = "soft_off"
          /\ (pc'[t] = "reopen" /\ pc[t] # "reopen") => pc[t] = "soft_on"]_vars

\* C6 (as claimed): as long as stop() was not called after the last
\* successful start(), the loop thread of that start() is alive: a session
\* never reports running without a live loop thread.
C6_RunningHasLiveLoop == running => (thread # NoThread /\ Live(thread))

\* a start() call, direct or made by reconfigure(), that raises
StartRaises ==
    \E o \in FailOutcomes :
        \/ DStart(o)
        \/ OStart(o)
        \/ \E r \in ReconfInputs : OReconfigure(r[1], r[2], r[3], o)

\* C7: a start() that raises (no device, open failed, stream start failed)
\* leaves running false and creates no thread.
C7_FailedStartLeavesStopped ==
    [][StartRaises => (~running' /\ Unborn' = Unborn /\ thread' = NoThread)]_vars

\* C7 witness: a Daheng start() raised at stream_on: a handle was opened,
\* nothing is streaming, the session is not running and has no thread.
C7_Witness ==
    /\ backend = "daheng"
    /\ ~running
    /\ ~stopped
    /\ cam \in open
    /\ cam \notin streaming
    /\ Unborn = Threads

\* C8: get_frame() returns None or the frame of the most recently completed
\* publish: the slot holds one frame and a publish overwrites it.
C8_SlotHoldsLastPublish == get_frame = NoFrame \/ get_frame = last_pub

\* C8 witness: a second frame was published over the first and is what
\* get_frame() returns.
C8_Witness == get_frame = last_pub /\ last_pub > 1

\* a set_exposure(), set_gain() or reconfigure() call on a Daheng session
DahengSetCall ==
    \/ \E v \in ExposureInputs : DSetExposure(v)
    \/ \E v \in GainInputs : DSetGain(v)
    \/ \E r \in ReconfInputs : DReconfigure(r[1], r[2], r[3])
\* the same calls on an OpenCV session
OpenCVSetCall ==
    \/ \E v \in ExposureInputs : OSetExposure(v)
    \/ \E v \in GainInputs : OSetGain(v)
    \/ \E r \in ReconfInputs, o \in StartOutcomes : OReconfigure(r[1], r[2], r[3], o)
\* the call appended one command and touched neither the device, the
\* handle, the loop threads nor the applied values
OnlyEnqueues ==
    /\ Len(cmd_q') = Len(cmd_q) + 1
    /\ SubSeq(cmd_q', 1, Len(cmd_q)) = cmd_q
    /\ UNCHANGED <<running, cam, thread, stop_evt, open, streaming, pc, cur,
                   exposure, gain, latest>>

C10_NoHandleAfterStop == (stopped /\ LiveThreads = {}) => cam = NoHandle

C12_ExposureUnitRule ==
    call.fn \in {"feed_exposure", "web_exposure"} =>
        call.out = (IF call.arg < 100 THEN call.arg * 1000 ELSE call.arg)

\* C12 witness: camera_web's set_exposure was given 50 and stored 50000.
C12_Witness == call.fn = "web_exposure" /\ call.arg = 50 /\ call.out = 50000

\* C13 (as claimed): the quality the encoder receives is clamp(q, 10, 100)
\* for every configured q, on the camera_feed and the camera_web path.
C13_QualityClamped ==
    call.fn \in {"feed_quality", "web_quality"} =>
        call.out = (IF call.arg < 10 THEN 10 ELSE IF call.arg > 100 THEN 100 ELSE call.arg)

\* C15: for an ROI with w, h > 0: inside the frame the crop is w x h; with
\* the origin inside and the ROI reaching past the frame it is clipped to
\* (min(x+w, W) - x) x (min(y+h, H) - y); with the origin outside the frame
\* passes uncropped.
C15_CropDimensions ==
    call.fn = "crop" =>
        LET W == call.arg[1]  H == call.arg[2]
            x == call.arg[3]  y == call.arg[4]
            w == call.arg[5]  h == call.arg[6]
        IN  (w > 0 /\ h > 0) =>
              /\ (0 <= x /\ 0 <= y /\ x + w <= W /\ y + h <= H) => call.out = <<w, h>>
              /\ (0 <= x /\ x < W /\ 0 <= y /\ y < H) =>
                    call.out = <<Min(x + w, W) - x, Min(y + h, H) - y>>
              /\ (x < 0 \/ x >= W \/ y < 0 \/ y >= H) => call.out = <<W, H>>

\* C15 witness: an ROI whose origin is inside a 3 x 2 frame and which reaches
\* past its right edge was clipped to 1 x 1.
C15_Witness == call.fn = "crop" /\ call.arg = <<3, 2, 2, 1, 2, 1>> /\ call.out = <<1, 1>>

\* a loop thread of camera_web ends an iteration in which it read a frame
EndsIteration(t) == w_pc[t] \in {"test", "encode"} /\ w_pc'[t] = "top"

\* C14 (as claimed, for the iterations that read a frame): the iteration
\* increments the counter; with frame_skip = k > 0 it goes on to encode
\* exactly when the counter value c it produced has c mod (k+1) = 1; and it
\* sets the interval metric whether it skipped or not.
C14_SkipRule ==
    [][\A t \in Threads :
          /\ (w_pc[t] = "read" /\ w_pc'[t] = "test") =>
                (frame_counter' = frame_counter + 1 /\ counted'[t] = frame_counter')
          /\ (frame_skip > 0 /\ w_pc[t] = "test" /\ w_pc'[t] # "test") =>
                (w_pc'[t] = "encode" <=> (counted[t] % (frame_skip + 1)) = 1)
          /\ EndsIteration(t) => last_timestamp' = counted[t]]_vars

\* C16: with no_buffer set no loop thread is ever created; without it no
\* caller is ever inside a read of read_and_encode(); and never are a loop
\* thread and a caller reading from the same handle.
C16_OneCapturePath ==
    /\ no_buffer_mode => WebUnborn = Threads
    /\ ~no_buffer_mode => reader = NoHandle
    /\ \A t \in Threads : ~(w_pc[t] = "read" /\ reader # NoHandle /\ ds[t] = reader)

\* C16 witness: a running no-buffer session with a caller inside the read
\* of read_and_encode().
C16_Witness == no_buffer_mode /\ w_running /\ reader # NoHandle /\ reader = dev

\* a stop() call of camera_web
WebStopCall(o) == WebStop(o) \/ (o = "ok" /\ WebStopIdle)

\* C20 (as claimed): stop() does not raise; unless the close itself fails
\* the handle it held is closed afterwards, also when stream_off raised;
\* the handle reference and the thread reference are cleared and running
\* is false.
C20_StopReleases ==
    [][\A o \in StopOutcomes : WebStopCall(o) =>
          /\ ~w_raised'
          /\ o # "close_raises" => dev \notin w_open'
          /\ dev' = NoHandle
          /\ w_thread' = NoThread
          /\ ~w_running']_vars

\* C17: whoever holds the frame lock is at the one statement inside the
\* with block, can execute it whatever the others do, and frees the lock by
\* it; so a thread waiting for the lock gets it, a publisher as well as a
\* reader.
C17_LockNeverWaits ==
    /\ [](\A t \in Threads : lock = Pub(t) => (p_pc[t] = "locked" /\ ENABLED PubPublish(t)))
    /\ [](\A c \in Consumers : lock = Gen(c) => (g_pc[c] = "locked" /\ ENABLED GenRead(c)))
    /\ \A t \in Threads : (p_pc[t] = "encoded") ~> (p_pc[t] = "sleep")
    /\ \A c \in Consumers : (g_pc[c] = "poll") ~> (g_pc[c] \in {"wait", "emit"})

\* C17 witness: a generator is calling get_frame() while a loop thread
\* holds the lock to publish, and another frame is already in the slot.
C17_Witness ==
    \E t \in Threads, c \in Consumers :
        lock = Pub(t) /\ g_pc[c] = "poll" /\ s_latest # NoFrame

\* C18 (as claimed): a generator emits a part only for a frame that is not
\* None and is new relative to the part it emitted last.
C18_NoDuplicateParts ==
    [][\A c \in Consumers : GenYield(c) =>
          (g_frame[c] # NoFrame /\ g_frame[c] # g_last[c])]_vars

\* C19: every part emitted is '--' boundary CRLF 'Content-Type: image/jpeg'
\* CRLF 'Content-Length: N' CRLF CRLF payload CRLF with the payload of the
\* frame obtained at that poll and N its length in decimal; no part is
\* emitted for None.
C19_PartFormat ==
    /\ \A c \in Consumers : g_part[c] # "" =>
          /\ g_last[c] # NoFrame
          /\ g_part[c] = "--" \o "frame" \o "\r\n" \o "Content-Type: image/jpeg" \o "\r\n"
                \o "Content-Length: " \o ToString(Len(Payload(g_last[c]))) \o "\r\n" \o "\r\n"
                \o Payload(g_last[c]) \o "\r\n"
    /\ \A c \in Consumers : g_pc[c] = "emit" => g_frame[c] # NoFrame

\* C19 witness: both generators of mjpeg_frame_generator emitted a part, one
\* for a payload whose length has one digit and one for a payload whose
\* length has two.
C19_Witness ==
    \E c, d \in Consumers :
        /\ g_src = "feed"
        /\ g_part[c] # "" /\ Len(Payload(g_last[c])) < 10
        /\ g_part[d] # "" /\ Len(Payload(g_last[d])) >= 10

\* a command enqueued as number s is waiting, taken, or was processed
Accounted(s) ==
    \/ \E i \in DOMAIN k_q : k_q[i].seq = s
    \/ k_cur.seq = s
    \/ \E i \in DOMAIN done : done[i].seq = s

ConfigAttrs ==
    {"ExposureAuto", "GainAuto", "Width", "Height", "AcquisitionFrameRateEnable",
     "AcquisitionFrameRate"}

\* no set() call on a width, height, frame-rate or auto attribute in log d
NoFormatPushed(d) ==
    \A i \in DOMAIN d : \A j \in DOMAIN d[i].sets : d[i].sets[j].attr \notin ConfigAttrs

\* C27: with safe_mode set no width, height, frame-rate or auto-feature
\* set() is ever called, by start() or for a set_format command; the
\* set_format command is still taken from the queue and the drain goes on.
C27_SafeModeSkipsFormat ==
    [][safe_mode =>
          /\ NoFormatPushed(done)
          /\ NoFormatPushed(done')
          /\ (k_pc = "apply" /\ k_cur.kind = "set_format" /\ k_pc' # "apply") =>
                (k_pc' = "drain" /\ k_cur' = NoCmd /\ k_q' = k_q)]_vars

\* C27 witness: in safe_mode a set_format command was processed without any
\* set() call and an exposure or gain command behind it was pushed.
C27_Witness ==
    /\ safe_mode
    /\ \E i, j \in DOMAIN done :
          /\ i < j
          /\ done[i].kind = "set_format"
          /\ done[i].sets = <<>>
          /\ done[j].kind \in {"set_exposure", "set_gain"}
          /\ done[j].sets # <<>>
          /\ ~Raised(done[j].sets)

\* the properties start() has to push on this device: the auto features,
\* width, height and the frame rate (begun by its enable attribute)
StartProperties ==
    ({"ExposureAuto", "GainAuto", "Width", "Height"} \cap attrs)
        \cup (IF Has("AcquisitionFrameRateEnable") /\ Has("AcquisitionFrameRate")
              THEN {"AcquisitionFrameRateEnable"} ELSE {})

\* C28 (as claimed): outside safe_mode every start() attempts the push of
\* each property, whichever of the other pushes raised.
C28_StartPushesIndependent ==
    \A i \in DOMAIN done :
        (done[i].kind = "start" /\ ~safe_mode) =>
            \A a \in StartProperties : \E j \in DOMAIN done[i].sets : done[i].sets[j].attr = a

\* the step ends with a set() call of attribute a with value v that returned
PushedNow(a, v) ==
    /\ Len(done') = Len(done) + 1
    /\ \E j \in DOMAIN done'[Len(done')].sets :
          done'[Len(done')].sets[j] = [attr |-> a, val |-> v, ok |-> TRUE]

\* C29 (as claimed): the reported exposure and gain change only in a step
\* that pushed that value to the device successfully.
C29_ReportedOnlyWhenPushed ==
    [][/\ k_exposure' # k_exposure => PushedNow("ExposureTime", k_exposure'[1])
       /\ k_gain' # k_gain => PushedNow("Gain", k_gain'[1])]_vars

\* the stall check of thread t passes and the soft restart is begun
BeginsRecovery(t) == pc[t] = "pace" /\ pc'[t] = "soft_off"

\* C22 (as claimed): a recovery attempt that failed leaves the loop running,
\* and the next attempt is begun only once a further run of max(10, fps)
\* consecutive empty acquisitions has been counted since the failure.
C22_RetryAfterThresholdAgain ==
    [][\A t \in Threads :
          /\ (pc[t] = "reopen" /\ pc'[t] # "reopen") => pc'[t] = "top"
          /\ (BeginsRecovery(t) /\ last_recovery # None /\ last_recovery[1] = "failed")
                => last_recovery[2] >= Max(10, IF fps = 0 THEN 15 ELSE fps)]_vars

\* the escalation of thread t opens a device handle
EscalationOpens(t) == pc[t] = "reopen" /\ pc'[t] = "top" /\ cam' # cam

\* C23 (as claimed): the escalation closes the handle the session holds,
\* opens a fresh one and keeps it; the session's handle before the
\* escalation is not open after it.
C23_EscalationClosesFirst ==
    [][\A t \in Threads :
          EscalationOpens(t) => (cam' \in open' /\ open' = (open \ {cam}) \cup {cam'})]_vars

\* C24 (as claimed): an empty acquisition adds one to the consecutive-empty
\* counter and changes nothing else; an acquire error adds one to the
\* frame-fail counter, publishes nothing and goes to the next iteration
\* without the stall check; an acquisition that returned an image sets both
\* counters to 0.
C24_AcquireOutcomes ==
    [][\A t \in Threads :
          /\ CaptureEmpty(t) =>
                /\ consecutive_empty' = consecutive_empty + 1
                /\ UNCHANGED <<frame_fail_count, session, device, format, slot, queue,
                               exposure, gain>>
          /\ (CaptureRaises(t) \/ (Acquire(t) /\ cam = NoHandle)) =>
                /\ frame_fail_count' = frame_fail_count + 1
                /\ UNCHANGED <<consecutive_empty, slot>>
                /\ pc'[t] = "top"
          /\ (CaptureFrame(t) \/ CaptureNoPublish(t)) =>
                (consecutive_empty' = 0 /\ frame_fail_count' = 0)]_vars

C30_MetricsExact ==
    /\ m_served = m_emitted + Cardinality({c \in Consumers : m_pc[c] = "yield"})
    /\ m_frames = m_iters

\* C33 (as claimed): between the return of stop() and the next start() the
\* frame slot is not written: get_frame() keeps returning the same frame.
C33_NoPublishAfterStop == [][stopped => latest' = latest]_vars


\* C34 (as claimed): start() on a session that is already running changes
\* nothing: the handle, the running flag, the thread reference, the set of
\* open devices and the set of threads are what they were.
C34_StartOnRunningIsNoop ==
    [][(\E o \in WebStartOutcomes : WebStartRunning(o))
        => UNCHANGED <<w_session, w_device, w_pc>>]_vars


\* C35 (as claimed): a start() that raises leaves the session without an
\* open backend handle: the handle reference names no open device and no
\* device that the call opened stays open.
C35_FailedStartHoldsNoHandle ==
    [][StartRaises => (cam' \notin open' /\ open' \subseteq open)]_vars


\* a step that puts one command, with the next sequence number, at the end
\* of the queue
QueueAppends ==
    /\ n_enq' = n_enq + 1
    /\ Len(cmd_q') = Len(cmd_q) + 1
    /\ SubSeq(cmd_q', 1, Len(cmd_q)) = cmd_q
    /\ cmd_q'[Len(cmd_q')].seq = n_enq'
\* a step in which loop thread t takes the head of the queue, and only it
QueueTakes(t) ==
    /\ pc[t] = "drain"
    /\ pc'[t] = "apply"
    /\ cmd_q # <<>>
    /\ cmd_q' = Tail(cmd_q)
    /\ cur'[t] = Head(cmd_q)
    /\ \A u \in Threads \ {t} : cur'[u] = cur[u]

\* C36, first part: the queue changes only by an enqueue at its end or by a
\* loop thread taking its head, so a command is handed to one thread, once,
\* and none leaves the queue otherwise.
C36_DequeuedExactlyOnce ==
    [][cmd_q' # cmd_q => (QueueAppends \/ \E t \in Threads : QueueTakes(t))]_vars

\* C36, second part: a queued command is eventually taken from the queue
\* unless no loop thread is left running.
C36_EventuallyDequeued ==
    \A s \in 1..MaxCmds :
        (\E i \in DOMAIN cmd_q : cmd_q[i].seq = s)
            ~> ((\A i \in DOMAIN cmd_q : cmd_q[i].seq # s) \/ LiveThreads = {})

\* Daheng sessions whose callers enqueue only between the return of a
\* stop() and the next start()
StoppedEnqueue ==
    /\ stopped
    /\ \/ \E r \in ReconfInputs : DReconfigure(r[1], r[2], r[3])
       \/ \E v \in ExposureInputs : DSetExposure(v)
       \/ \E v \in GainInputs : DSetGain(v)

NextStoppedQueue ==
    \/ \E o \in StartOutcomes : DStart(o)
    \/ DStartNoop
    \/ DStop
    \/ StoppedEnqueue
    \/ DahengLoop

SpecStoppedQueue == InitStall /\ [][NextStoppedQueue]_vars

\* start() calls that succeeded so far: each created one thread
Started == Cardinality(Threads \ Unborn)

\* C36 (as claimed), third part: a command enqueued between the return of
\* stop() and the next start() stays in the queue until that start(): when
\* every command is enqueued after a stop(), none is taken from the queue
\* before a second start() has succeeded.
C36_QueuedUntilStarted ==
    [][\A t \in Threads : QueueTakes(t) => Started >= 2]_vars


IsOneStep(e) == e.op = "onestep"
IsRelease(e) == e.op = "release"
OneSteps == SelectSeq(mv_log, IsOneStep)
Returned == mv_pc \in {"returned", "done"}

\* C37: move_steps without an explicit direction makes exactly |steps|
\* onestep calls, all FORWARD for steps > 0 and all BACKWARD for steps < 0,
\* in the flat and in the ramped profile and for every ramp_fraction; for
\* steps = 0 it makes none.
C37_StepCountAndDirection ==
    /\ \A i \in DOMAIN OneSteps :
          OneSteps[i].direction = IF mv_n > 0 THEN "FORWARD" ELSE "BACKWARD"
    /\ Len(OneSteps) <= Abs(mv_n)
    /\ Returned => Len(OneSteps) = Abs(mv_n)

\* C37 witness: a move of 12 steps backward has returned, ramped with a
\* ramp_fraction above 0.5 that was clamped: 6 steps were taken
\* accelerating and 6 decelerating.
C37_Witness ==
    /\ mv_pc = "returned"
    /\ mv_in.fn = "move_steps"
    /\ mv_n = 0 - 12
    /\ mv_in.ramp > 50
    /\ Cardinality({i \in DOMAIN OneSteps : OneSteps[i].phase = "accel"}) = 6
    /\ Cardinality({i \in DOMAIN OneSteps : OneSteps[i].phase = "decel"}) = 6

\* C38 (as claimed): with release true move_steps calls release() exactly
\* once, after the last onestep, for every value of steps; with release
\* false it never calls release().
C38_ReleaseOnceAfterMovement ==
    Returned =>
        IF mv_in.release
        THEN /\ mv_log # <<>>
             /\ IsRelease(mv_log[Len(mv_log)])
             /\ Len(SelectSeq(mv_log, IsRelease)) = 1
        ELSE Len(SelectSeq(mv_log, IsRelease)) = 0

\* C39: move_mm executes the whole distance and returns
\* mm_to_steps(distance) whether or not the distance exceeds max_travel_mm
\* with limit_check on; with a screw_pitch that is not above 0 it raises
\* before any step.
C39_TravelLimitAdvisory ==
    mv_in.fn = "move_mm" =>
        /\ mv_in.pitch <= 0 => (mv_log = <<>> /\ mv_pc \in {"move_mm", "raised"})
        /\ mv_pc = "raised" => mv_in.pitch <= 0
        /\ mv_pc = "done" =>
              /\ mv_ret = Some(mm_to_steps(mv_in.mm, mv_in.pitch, mv_in.spr))
              /\ Len(OneSteps) = Abs(mm_to_steps(mv_in.mm, mv_in.pitch, mv_in.spr))

\* C39 witness: move_mm returned after a move beyond max_travel_mm with
\* limit_check on: the advisory was printed and every step was taken.
C39_Witness ==
    /\ mv_pc = "done"
    /\ mv_warned
    /\ Abs(mv_in.mm) > mv_in.max_travel
    /\ Len(OneSteps) = 12


\* read_and_encode() returned after getting past its first test
DirectReturned == rd_pc = "returned" /\ rd_in.no_buffer_mode /\ rd_in.opened
GoodReads == {i \in DOMAIN rd_log : rd_log[i]}
\* the number of the last read that succeeded, 0 when none did
LastGood == IF GoodReads = {} THEN 0 ELSE CHOOSE i \in GoodReads : \A j \in GoodReads : j <= i
EncodeFailed == rd_enc = Some(FALSE)
\* every read that was made succeeded, and the encode did not fail
AllSucceeded == rd_log # <<>> /\ GoodReads = DOMAIN rd_log /\ ~EncodeFailed

\* what C32 says of a session that flushes k = n extra reads
FlushesAndEncodesLast(n) ==
    /\ Len(rd_log) <= n + 1
    /\ \A i \in 2..Len(rd_log) : ~rd_log[i] => i = Len(rd_log)
    /\ rd_ret # None => rd_ret = Some(LastGood)
    /\ rd_ret = None <=> (GoodReads = {} \/ EncodeFailed)
    /\ AllSucceeded => rd_ret = Some(n + 1)

\* C32 (as claimed): in no-buffer mode with flush_reads = k,
\* read_and_encode() makes one read and up to k more, stops flushing at a
\* failing flush read, encodes the last frame read successfully (the
\* (k+1)-th when every read succeeds) and returns None only when no read
\* succeeded or the encode failed.
C32_FlushThenEncodeLast ==
    DirectReturned => FlushesAndEncodesLast(rd_in.flush_reads)

\* C32 (amended): that holds for CameraThread; the DahengCameraThread
\* read_and_encode() makes a single get_image whatever flush_reads is and
\* encodes that frame.
C32_FlushOnlyInCameraThread ==
    DirectReturned =>
        FlushesAndEncodesLast(IF rd_in.class = "cv" THEN rd_in.flush_reads ELSE 0)

\* C32 witness: a CameraThread with flush_reads = 3 returned the frame of
\* its third read: the first read failed, two flush reads succeeded and the
\* last flush read failed.
C32_Witness ==
    /\ DirectReturned
    /\ rd_in.class = "cv"
    /\ rd_in.flush_reads = 3
    /\ rd_log = <<FALSE, TRUE, TRUE, FALSE>>
    /\ rd_ret = Some(3)


\* the sessions create_camera_from_config is to try, in order: the
\* configured one, then OpenCV indices 0..5 without the configured index
NotConfigured(c) == c # fc_in.device
Candidates ==
    <<fc_in.device>> \o SelectSeq([i \in 1..ScanEnd |-> OpenCVDevice(i - 1)], NotConfigured)
GoodCandidates == {i \in DOMAIN Candidates : Starts(Candidates[i])}
FirstGood ==
    IF GoodCandidates = {} THEN 0
    ELSE CHOOSE i \in GoodCandidates : \A j \in GoodCandidates : i <= j
FactoryEnded == fc_pc \in {"returned", "raised"} /\ fc_in.device.kind # "path"
FallsBack ==
    /\ fc_tried = IF FirstGood = 0 THEN Candidates ELSE SubSeq(Candidates, 1, FirstGood)
    /\ fc_pc = "raised" <=> FirstGood = 0
    /\ fc_pc = "raised" => fc_threads = {}
    /\ fc_pc = "returned" =>
          /\ fc_cam = Some(Candidates[FirstGood])
          /\ fc_threads = {Candidates[FirstGood]}

\* C31 (as claimed): when the configured OpenCV index fails, or the Daheng
\* backend cannot be brought up (SDK missing, no device, open or stream
\* start failure), OpenCV indices 0..5 are tried in ascending order (without
\* the configured index) and the first that starts is returned;
\* RuntimeError is raised only when every candidate failed; on return
\* exactly one session runs and no failed candidate has a thread.
C31_FallbackScan == FactoryEnded => FallsBack

\* C31, without the missing SDK: the same for every configuration in which
\* gxipy is installed or the backend is opencv.
C31_FallbackScanWithSdk ==
    (FactoryEnded /\ ~ConstructRaises(fc_in.device)) => FallsBack


\* the import of camera_feed is over: every statement ran, or one raised
ImportOver == ld_err # None \/ ld_i > Len(ModuleBody)
\* the reliability helpers a session is to own
Helpers == {"_cmd_q", "_stop_evt", "_consecutive_empty", "timeout_ms"}

\* C40 (as claimed): a program that imported camera_feed can construct
\* DahengCameraThread sessions, and every new session owns its helpers (its
\* own empty command queue, a cleared stop event, the empty counter at 0,
\* the timeout of 200 ms): the class exists after the import and the
\* helpers are among the attributes __init__ sets on the instance.
C40_FreshSessionOwnsHelpers ==
    ImportOver =>
        /\ ld_err = None
        /\ "DahengCameraThread" \in ld_globals
        /\ Helpers \subseteq InitAssigns

====
